---- MODULE Spec2Model ----
(***************************************************************************)
(* A model of the answer pipeline of trial-whisperer                       *)
(* (src/app/agents/tools.py): answer cleaning, the context budgeter, the   *)
(* citation selector, the provider gateway and the answer aligner.         *)
(*                                                                         *)
(* A Python str is modelled as a sequence of one-character strings, so     *)
(* that len(), slicing, find(), strip() and the regular expressions of the *)
(* source are computed character by character.  The characters are ASCII;  *)
(* two characters outside ASCII that the source names are written "NBSP"   *)
(* (U+00A0) and "ELLIPSIS" (U+2026), one sequence element each.            *)
(***************************************************************************)
EXTENDS Integers, Sequences, FiniteSets, TLC

VARIABLES
    cleaner,    \* clean_answer_text: the raw answer and the successive results
    budgeter,   \* _select_chunks_for_context: chunks, budget, result
    citer,      \* _select_citations: answer, chunks, result
    gateway,    \* call_llm_with_citations: settings, attempt loop, outcome
    aligner,    \* align_answer_to_context: answer, chunks, query, result
    matcher,    \* _evaluate_candidate, _extract_answer_fragments: inputs, result
    asker,      \* ask: the request, the retrieved chunks, the response
    screener,   \* check_eligibility: criteria, patient, result
    evaluator,  \* evaluate_examples: examples, attempts, records
    searcher,   \* search_client: fallback index, Qdrant calls, results
    fetcher     \* fetch_studies: pages requested, studies collected

RECURSIVE Apply(_, _)

vars == <<cleaner, budgeter, citer, gateway, aligner, matcher, asker,
         screener, evaluator, searcher, fetcher>>

(***************************************************************************)
(* Characters and the str methods the source uses.                         *)
(***************************************************************************)
UpperSeq == <<"A", "B", "C", "D", "E", "F", "G", "H", "I", "J", "K", "L", "M",
              "N", "O", "P", "Q", "R", "S", "T", "U", "V", "W", "X", "Y", "Z">>
LowerSeq == <<"a", "b", "c", "d", "e", "f", "g", "h", "i", "j", "k", "l", "m",
              "n", "o", "p", "q", "r", "s", "t", "u", "v", "w", "x", "y", "z">>
UpperSet == {UpperSeq[i] : i \in 1..26}
LowerSet == {LowerSeq[i] : i \in 1..26}
DigitSet == {"0", "1", "2", "3", "4", "5", "6", "7", "8", "9"}
\* what \s and str.strip() take for whitespace (U+00A0 is whitespace to both)
SpaceSet == {" ", "\t", "\n", "\r", "NBSP"}
\* \w of the re module: what \b is decided on
WordSet  == UpperSet \cup LowerSet \cup DigitSet \cup {"_"}
\* the character class [A-Za-z0-9 _/\-] of the label patterns
LabelBodySet  == UpperSet \cup LowerSet \cup DigitSet \cup {" ", "_", "/", "-"}
\* the character class [A-Z0-9 _/\-] of the upper-case label patterns
UpperLabelSet == UpperSet \cup DigitSet \cup {" ", "_", "/", "-"}

Max(a, b) == IF a >= b THEN a ELSE b
Min(a, b) == IF a <= b THEN a ELSE b

LowerChar(c) ==
    IF c \in UpperSet THEN LowerSeq[CHOOSE i \in 1..26 : UpperSeq[i] = c] ELSE c

\* str.lower()
Lower(s) == [i \in 1..Len(s) |-> LowerChar(s[i])]

\* s[i:] and s[:i] with 1-based positions: From(s, i) starts at s[i]
\* and Upto(s, i) ends at s[i]; as in Python, positions beyond the ends are
\* clipped
From(s, i) == IF i > Len(s) THEN <<>> ELSE SubSeq(s, Max(i, 1), Len(s))
Upto(s, i) == IF i < 1 THEN <<>> ELSE SubSeq(s, 1, Min(i, Len(s)))

\* whether w occurs in s starting at position i
StartsAt(s, i, w) ==
    /\ i >= 1
    /\ i + Len(w) - 1 <= Len(s)
    /\ \A k \in 1..Len(w) : s[i + k - 1] = w[k]

\* str.find: the first position >= i at which w occurs, 0 when there is none
Find(s, w, i) ==
    LET hits == {p \in i..(Len(s) - Len(w) + 1) : StartsAt(s, p, w)}
    IN  IF hits = {} THEN 0 ELSE CHOOSE p \in hits : \A q \in hits : p <= q

\* w in s
Contains(s, w) == \E p \in 1..(Len(s) - Len(w) + 1) : StartsAt(s, p, w)

\* the first position >= i whose character is not in set cs (Len(s)+1 if none)
SkipSet(s, i, cs) ==
    LET stops == {p \in i..Len(s) : s[p] \notin cs}
    IN  IF stops = {} THEN Len(s) + 1
        ELSE CHOOSE p \in stops : \A q \in stops : p <= q

\* the last position <= i whose character is not in set cs (0 if none)
SkipSetBack(s, i, cs) ==
    LET stops == {p \in 1..i : s[p] \notin cs}
    IN  IF stops = {} THEN 0
        ELSE CHOOSE p \in stops : \A q \in stops : p >= q

LStripSet(s, cs) == From(s, SkipSet(s, 1, cs))
RStripSet(s, cs) == Upto(s, SkipSetBack(s, Len(s), cs))
StripSet(s, cs)  == LStripSet(RStripSet(s, cs), cs)
\* str.strip(), str.lstrip(), str.rstrip()
Strip(s)  == StripSet(s, SpaceSet)
LStrip(s) == LStripSet(s, SpaceSet)
RStrip(s) == RStripSet(s, SpaceSet)

\* the first position >= i whose character is in set cs (Len(s)+1 if none)
NextInSet(s, i, cs) ==
    LET hits == {p \in i..Len(s) : s[p] \in cs}
    IN  IF hits = {} THEN Len(s) + 1
        ELSE CHOOSE p \in hits : \A q \in hits : p <= q

\* re.sub(r"\s+", " ", s): every whitespace run becomes one space (one step of
\* the recursion for each run)
RECURSIVE CollapseFrom(_, _)
CollapseFrom(s, i) ==
    LET w == NextInSet(s, i, SpaceSet)
    IN  IF w > Len(s) THEN SubSeq(s, i, Len(s))
        ELSE SubSeq(s, i, w - 1) \o <<" ">> \o CollapseFrom(s, SkipSet(s, w, SpaceSet))

CollapseSpaces(s) == CollapseFrom(s, 1)

\* the concatenation of a sequence of strings
RECURSIVE Flatten(_)
Flatten(ss) == IF ss = <<>> THEN <<>> ELSE Head(ss) \o Flatten(Tail(ss))

\* all sequences over S of length 0..n
RECURSIVE SeqsUpTo(_, _)
SeqsUpTo(S, n) ==
    IF n = 0 THEN {<<>>}
    ELSE LET shorter == SeqsUpTo(S, n - 1)
         IN  shorter \cup {Append(q, x) : q \in shorter, x \in S}

(***************************************************************************)
(* clean_answer_text                                                       *)
(***************************************************************************)
\* _CITATION_MARKER_PATTERN, \s*(?:\(\s*\d+\s*\)|\[\s*\d+\s*\]): the position
\* of the last character of the match that starts at i, 0 when none starts
\* there.  Every quantifier is followed by a character outside its class, so
\* the greedy match is the only one.
CitationMarkerEnd(s, i) ==
    LET open  == SkipSet(s, i, SpaceSet)
        d1    == SkipSet(s, open + 1, SpaceSet)
        d2    == SkipSet(s, d1, DigitSet)
        close == SkipSet(s, d2, SpaceSet)
    IN  IF /\ open <= Len(s)
           /\ s[open] \in {"(", "["}
           /\ d2 > d1
           /\ close <= Len(s)
           /\ s[close] = (IF s[open] = "(" THEN ")" ELSE "]")
        THEN close
        ELSE 0

\* _CITATION_MARKER_PATTERN.sub("", s): leftmost matches, left to right (one
\* step of the recursion for each match)
RECURSIVE SubCitationFrom(_, _)
SubCitationFrom(s, i) ==
    LET starts == {p \in i..Len(s) : Apply("CitationMarkerEnd", <<s, p>>) > 0}
        m == CHOOSE p \in starts : \A q \in starts : p <= q
    IN  IF starts = {} THEN SubSeq(s, i, Len(s))
        ELSE SubSeq(s, i, m - 1) \o Apply("SubCitationFrom", <<s, Apply("CitationMarkerEnd", <<s, m>>) + 1>>)

SubCitationMarkers(s) == Apply("SubCitationFrom", <<s, 1>>)

\* a literal of a re.IGNORECASE pattern at position i: the position after it,
\* 0 when it does not match
LitCI(s, i, w) ==
    IF i >= 1 /\ StartsAt(Lower(s), i, w) THEN i + Len(w) ELSE 0

\* the first alternative of ws (a sequence of literals, in pattern order) that
\* matches at i: the position after it, 0 when none matches
RECURSIVE AltCI(_, _, _)
AltCI(s, i, ws) ==
    IF ws = <<>> \/ i = 0 THEN 0
    ELSE IF LitCI(s, i, Head(ws)) > 0 THEN LitCI(s, i, Head(ws))
         ELSE AltCI(s, i, Tail(ws))

\* an optional literal group (?:w)? at i: the position after it when it
\* matches, i when it does not
OptCI(s, i, w) == IF LitCI(s, i, w) > 0 THEN LitCI(s, i, w) ELSE i

\* ^\s*(?:w1|w2|..)\s*[:\-]\s*, the shape of four of the five leading
\* patterns: s without the matched prefix, s itself when there is no match
SubLabelledPrefix(s, ws) ==
    LET p0 == SkipSet(s, 1, SpaceSet)
        p1 == AltCI(s, p0, ws)
        p2 == IF p1 = 0 THEN 0 ELSE SkipSet(s, p1, SpaceSet)
    IN  IF p1 > 0 /\ p2 <= Len(s) /\ s[p2] \in {":", "-"}
        THEN From(s, SkipSet(s, p2 + 1, SpaceSet))
        ELSE s

\* \s* from position p of a match in progress; 0 stays 0 (no match)
SkipSpaces(s, p) == IF p = 0 THEN 0 ELSE SkipSet(s, p, SpaceSet)

\* (?: (?:above|given))? at p.  Once the group has matched no shorter match
\* can succeed: \s* would stop at the "a" or "g" the group consumed.
OptAboveGiven(s, p, after_space) ==
    IF p = 0 THEN 0
    ELSE IF after_space > 0 THEN after_space
    ELSE p

\* (?:[,:\-]|that) at p
SeparatorOrThat(s, p) ==
    IF p = 0 \/ p > Len(s) THEN 0
    ELSE IF s[p] \in {",", ":", "-"} THEN p + 1
    ELSE LitCI(s, p, <<"t", "h", "a", "t">>)

\* ^\s*(?:based on|according to|from|using) (?:the )?(?:provided )?context
\*  (?: (?:above|given))?\s*(?:[,:\-]|that)\s*
\* the positions the match passes through, element by element of the
\* pattern; a position is 0 once the match has failed
ContextPrefixPositions(s) ==
    LET p0 == SkipSet(s, 1, SpaceSet)
        p1 == AltCI(s, p0, << <<"b", "a", "s", "e", "d", " ", "o", "n">>,
                              <<"a", "c", "c", "o", "r", "d", "i", "n", "g", " ", "t", "o">>,
                              <<"f", "r", "o", "m">>,
                              <<"u", "s", "i", "n", "g">> >>)
        p2 == LitCI(s, p1, <<" ">>)
        p3 == OptCI(s, p2, <<"t", "h", "e", " ">>)
        p4 == OptCI(s, p3, <<"p", "r", "o", "v", "i", "d", "e", "d", " ">>)
        p5 == LitCI(s, p4, <<"c", "o", "n", "t", "e", "x", "t">>)
        sp == LitCI(s, p5, <<" ">>)
        ag == AltCI(s, sp, << <<"a", "b", "o", "v", "e">>, <<"g", "i", "v", "e", "n">> >>)
        p6 == OptAboveGiven(s, p5, ag)
        p7 == SkipSpaces(s, p6)
        p8 == SeparatorOrThat(s, p7)
        p9 == SkipSpaces(s, p8)
    IN  <<p0, p1, p2, p3, p4, p5, sp, ag, p6, p7, p8, p9>>

\* s without the matched prefix, s itself when there is no match
CutAt(s, p) == IF p > 0 THEN From(s, p) ELSE s

SubContextPrefix(s) == CutAt(s, ContextPrefixPositions(s)[12])

\* one round of the for loop over _ANSWER_LEADING_PATTERNS, then lstrip()
LeadingPhraseRound(s) ==
    LET a == Apply("SubLabelledPrefix", <<s, << <<"a", "n", "s", "w", "e", "r">>,
                 <<"f", "i", "n", "a", "l", " ", "a", "n", "s", "w", "e", "r">> >>>>)
        b == Apply("SubContextPrefix", <<a>>)
        c == Apply("SubLabelledPrefix", <<b, << <<"i", "n", " ", "s", "u", "m", "m", "a", "r", "y">> >>>>)
        d == Apply("SubLabelledPrefix", <<c, << <<"o", "v", "e", "r", "a", "l", "l">> >>>>)
        e == Apply("SubLabelledPrefix", <<d, << <<"t", "h", "i", "s", " ", "m", "e", "a", "n", "s">> >>>>)
        rounds == <<a, b, c, d, e>>
    IN  LStrip(rounds[5])

\* _strip_leading_phrases: rounds until one changes nothing
RECURSIVE _strip_leading_phrases(_)
_strip_leading_phrases(text) ==
    LET updated == Apply("LeadingPhraseRound", <<text>>)
    IN  IF updated = text THEN updated ELSE Apply("_strip_leading_phrases", <<updated>>)

\* the characters of cleaned.lstrip("-:;, ")
LeadingPunctuation == {"-", ":", ";", ",", " "}

\* the values the statements of clean_answer_text compute, in their order:
\* original, then `cleaned` after each of its five assignments
CleanedValues(answer) ==
    LET original == Strip(answer)
        c1 == Apply("SubCitationMarkers", <<original>>)
        c2 == Strip(CollapseSpaces(c1))
        c3 == Apply("_strip_leading_phrases", <<c2>>)
        c4 == LStripSet(c3, LeadingPunctuation)
        c5 == Strip(CollapseSpaces(c4))
    IN  <<original, c1, c2, c3, c4, c5>>

\* clean_answer_text as a bug would have it: `cleaned` is returned even
\* when nothing is left of it
CleanWithoutFallback(answer) == Apply("CleanedValues", <<answer>>)[6]

clean_answer_text(answer) ==
    LET values   == Apply("CleanedValues", <<answer>>)
        original == values[1]
        cleaned  == values[6]
    IN  IF original = <<>> THEN <<>>
        ELSE IF cleaned # <<>> THEN cleaned ELSE original

(***************************************************************************)
(* The context budgeter: _select_chunks_for_context                        *)
(*                                                                         *)
(* A chunk is a record [nct_id, section, text, score]; score is <<n>> for   *)
(* the numeric score n and <<>> when the chunk has no numeric score.       *)
(***************************************************************************)

\* str(n) for n >= 0
RECURSIVE DecimalString(_)
DecimalString(n) ==
    LET digit == <<"0", "1", "2", "3", "4", "5", "6", "7", "8", "9">>[(n % 10) + 1]
    IN  IF n < 10 THEN <<digit>> ELSE DecimalString(n \div 10) \o <<digit>>

\* U+2026, one character
ELLIPSIS == <<"ELLIPSIS">>

\* f"({index}) [Trial {nct_id}] {section}: "
_format_chunk_prefix(chunk, index) ==
    <<"(">> \o DecimalString(index) \o <<")", " ", "[", "T", "r", "i", "a", "l", " ">>
        \o chunk.nct_id \o <<"]", " ">> \o chunk.section \o <<":", " ">>

\* _truncate_text as a bug would have it: the whole limit is spent on the
\* text and the ellipsis comes on top
TruncateWithoutReserve(text, limit) ==
    IF limit <= 0 THEN <<>>
    ELSE IF Len(text) <= limit THEN text
    ELSE Upto(text, limit) \o ELLIPSIS

\* _truncate_text as a bug would have it: nothing is left of a text that
\* does not fit
TruncateToNothing(text, limit) ==
    IF limit <= 0 THEN <<>>
    ELSE IF Len(text) <= limit THEN text
    ELSE <<>>

\* _truncate_text as a bug would have it: the text is cut and no ellipsis
\* marks the cut
TruncateWithoutEllipsis(text, limit) ==
    IF limit <= 0 THEN <<>> ELSE Upto(text, limit)

_truncate_text(text, limit) ==
    LET cut      == Upto(text, Max(0, limit - Len(ELLIPSIS)))
        trimmed  == IF RStrip(cut) # <<>> THEN RStrip(cut) ELSE cut
    IN  IF limit <= 0 THEN <<>>
        ELSE IF Len(text) <= limit THEN text
        ELSE Upto(trimmed \o ELLIPSIS, limit)

\* _score_key(item) < _score_key(other) for items (index, chunk): the key is
\* (-score, index) with a numeric score and (0.0, index) without one
ScoreKeyLess(chunks, i, j) ==
    LET ki == IF chunks[i].score = <<>> THEN 0 ELSE 0 - chunks[i].score[1]
        kj == IF chunks[j].score = <<>> THEN 0 ELSE 0 - chunks[j].score[1]
    IN  ki < kj \/ (ki = kj /\ i < j)

\* sorted(enumerate(chunks), key=_score_key): the indices in key order (the
\* keys are distinct, so each index has one rank)
OrderedByScore(chunks) ==
    [r \in 1..Len(chunks) |->
        CHOOSE i \in 1..Len(chunks) :
            Cardinality({j \in 1..Len(chunks) : ScoreKeyLess(chunks, j, i)}) = r - 1]

\* "\n".join(parts)
RECURSIVE JoinLines(_)
JoinLines(parts) ==
    IF parts = <<>> THEN <<>>
    ELSE IF Len(parts) = 1 THEN parts[1]
    ELSE parts[1] \o <<"\n">> \o JoinLines(Tail(parts))

\* the for loop of _select_chunks_for_context from position k of the ordered
\* chunks, with the loop's locals; the result is <<selected, formatted_parts>>
RECURSIVE ContextLoop(_, _, _, _, _, _)
ContextLoop(ordered, k, max_chars, selected, formatted_parts, current_length) ==
    IF k > Len(ordered) THEN <<selected, formatted_parts>>
    ELSE
      LET chunk        == ordered[k]
          next_index   == Len(selected) + 1
          prefix       == Apply("_format_chunk_prefix", <<chunk, next_index>>)
          line         == prefix \o chunk.text
          newline_cost == IF formatted_parts # <<>> THEN 1 ELSE 0
          projected    == current_length + newline_cost + Len(line)
          available    == max_chars - current_length - newline_cost
          truncated_text == Apply("_truncate_text", <<chunk.text, available - Len(prefix)>>)
      IN  IF projected <= max_chars
          THEN Apply("ContextLoop", <<ordered, k + 1, max_chars, Append(selected, chunk),
                           Append(formatted_parts, line), projected>>)
          ELSE IF available <= Len(prefix) THEN <<selected, formatted_parts>>
          ELSE IF truncated_text = <<>> THEN <<selected, formatted_parts>>
          ELSE <<Append(selected, chunk),
                 Append(formatted_parts, prefix \o truncated_text)>>

\* the result is the record [selected, context] of the pair returned, with
\* two locals beside it: order, the input indices in the order of `ordered`,
\* and formatted_parts
_select_chunks_for_context(chunks, max_chars) ==
    LET order   == OrderedByScore(chunks)
        ordered == [r \in 1..Len(chunks) |-> chunks[order[r]]]
        looped  == Apply("ContextLoop", <<ordered, 1, max_chars, <<>>, <<>>, 0>>)
    IN  IF chunks = <<>> \/ max_chars <= 0
        THEN [selected |-> <<>>, context |-> <<>>, order |-> <<>>,
              formatted_parts |-> <<>>]
        ELSE [selected |-> looped[1], context |-> JoinLines(looped[2]),
              order |-> order, formatted_parts |-> looped[2]]

DEFAULT_CONTEXT_CHAR_BUDGET == 24000

(***************************************************************************)
(* Matching helpers: _normalize_for_match, _chunk_keyword_tokens,          *)
(* _extract_answer_fragments                                               *)
(***************************************************************************)
\* [a-z0-9]
AlnumLowerSet == LowerSet \cup DigitSet

\* re.sub(r"[^a-z0-9]+", " ", s): every run of other characters becomes one
\* space (one step of the recursion for each run)
RECURSIVE SubNonAlnumFrom(_, _)
SubNonAlnumFrom(s, i) ==
    LET w == SkipSet(s, i, AlnumLowerSet)
    IN  IF w > Len(s) THEN SubSeq(s, i, Len(s))
        ELSE SubSeq(s, i, w - 1) \o <<" ">>
                 \o SubNonAlnumFrom(s, NextInSet(s, w, AlnumLowerSet))

_normalize_for_match(text) ==
    LET replaced   == [i \in 1..Len(text) |-> IF text[i] = "NBSP" THEN " " ELSE text[i]]
        normalized == SubNonAlnumFrom(Lower(replaced), 1)
    IN  IF text = <<>> THEN <<>>
        \* " ".join(normalized.split())
        ELSE Strip(CollapseSpaces(normalized))

\* _KEYWORD_PATTERN.findall(s) from position i: the maximal runs of [a-z0-9]
RECURSIVE FindAllKeywords(_, _)
FindAllKeywords(s, i) ==
    LET b == NextInSet(s, i, AlnumLowerSet)
        e == SkipSet(s, b, AlnumLowerSet)
    IN  IF b > Len(s) THEN <<>>
        ELSE <<SubSeq(s, b, e - 1)>> \o FindAllKeywords(s, e)

\* _chunk_keyword_tokens: the Counter is kept as the sequence of the tokens
\* found; Count gives a token's count and TokenSet the Counter's keys
_chunk_keyword_tokens(text) == FindAllKeywords(Lower(text), 1)

Count(tokens, t) == Cardinality({i \in 1..Len(tokens) : tokens[i] = t})
TokenSet(tokens) == {tokens[i] : i \in 1..Len(tokens)}

\* sum(min(count, other.get(token, 0)) for token, count in counter.items())
RECURSIVE SumMinCounts(_, _, _)
SumMinCounts(keys, tokens, other) ==
    IF keys = {} THEN 0
    ELSE LET t == CHOOSE k \in keys : TRUE
         IN  Min(Count(tokens, t), Count(other, t))
                 + SumMinCounts(keys \ {t}, tokens, other)

TokenOverlap(tokens, other) == SumMinCounts(TokenSet(tokens), tokens, other)

\* _FRAGMENT_SPLIT_PATTERN, [\n;]+|(?<!\d)\.(?!\d): the position of the last
\* character of the match that starts at i, 0 when none starts there
FragmentSeparatorEnd(s, i) ==
    IF i > Len(s) THEN 0
    ELSE IF s[i] \in {"\n", ";"} THEN SkipSet(s, i, {"\n", ";"}) - 1
    ELSE IF /\ s[i] = "."
            /\ (i = 1 \/ s[i - 1] \notin DigitSet)
            /\ (i = Len(s) \/ s[i + 1] \notin DigitSet)
         THEN i
    ELSE 0

\* _FRAGMENT_SPLIT_PATTERN.split(s) from position i: the pieces between the
\* matches, empty pieces included
RECURSIVE FragmentSplitFrom(_, _)
FragmentSplitFrom(s, i) ==
    LET starts == {p \in i..Len(s) : FragmentSeparatorEnd(s, p) > 0}
        m == CHOOSE p \in starts : \A q \in starts : p <= q
    IN  IF starts = {} THEN <<SubSeq(s, i, Len(s))>>
        ELSE <<SubSeq(s, i, m - 1)>>
                 \o FragmentSplitFrom(s, FragmentSeparatorEnd(s, m) + 1)

FragmentSplit(s) == FragmentSplitFrom(s, 1)

\* the elements of a sequence of strings that are not empty
NonEmpty(ss) == SelectSeq(ss, LAMBDA x : x # <<>>)

_extract_answer_fragments(answer) ==
    LET parts == FragmentSplit(answer)
    IN  IF answer = <<>> THEN <<>>
        ELSE NonEmpty([k \in 1..Len(parts) |-> Apply("_normalize_for_match", <<parts[k]>>)])

(***************************************************************************)
(* The citation selector: _select_citations                                *)
(***************************************************************************)
\* the entry of `matches` for the chunk at index, given what the function
\* computes once from the answer
MatchEntry(normalized_answer, fragments, answer_tokens, chunks, index) ==
    LET text              == chunks[index].text
        normalized_chunk  == Apply("_normalize_for_match", <<text>>)
        chunk_tokens      == Apply("_chunk_keyword_tokens", <<text>>)
    IN  [index            |-> index,
         span_match       |-> normalized_answer # <<>>
                                  /\ Contains(normalized_chunk, normalized_answer),
         fragment_matches |-> {pos \in 1..Len(fragments) :
                                  Contains(normalized_chunk, fragments[pos])},
         tokens           |-> TokenSet(chunk_tokens) \cap TokenSet(answer_tokens),
         token_overlap    |-> TokenOverlap(answer_tokens, chunk_tokens),
         section          |-> chunks[index].section]

CitationMatch(cleaned_answer, chunks, index) ==
    Apply("MatchEntry", <<Apply("_normalize_for_match", <<cleaned_answer>>),
               Apply("_extract_answer_fragments", <<cleaned_answer>>),
               Apply("_chunk_keyword_tokens", <<cleaned_answer>>), chunks, index>>)

\* the sort key as a bug would have it: token_overlap ascending
CitationKeyLessAscendingOverlap(a, b) ==
    LET ka == <<IF a.span_match THEN -1 ELSE 0, 0 - Cardinality(a.fragment_matches),
                a.token_overlap, a.index>>
        kb == <<IF b.span_match THEN -1 ELSE 0, 0 - Cardinality(b.fragment_matches),
                b.token_overlap, b.index>>
    IN  \E k \in 1..4 : ka[k] < kb[k] /\ \A j \in 1..(k - 1) : ka[j] = kb[j]

\* the sort key of matches.sort: (-span_match, -len(fragment_matches),
\* -token_overlap, index), compared as tuples
CitationKeyLess(a, b) ==
    LET ka == <<IF a.span_match THEN -1 ELSE 0, 0 - Cardinality(a.fragment_matches),
                0 - a.token_overlap, a.index>>
        kb == <<IF b.span_match THEN -1 ELSE 0, 0 - Cardinality(b.fragment_matches),
                0 - b.token_overlap, b.index>>
    IN  \E k \in 1..4 : ka[k] < kb[k] /\ \A j \in 1..(k - 1) : ka[j] = kb[j]

\* need_chunk as a bug would have it: the floor of max_default is forgotten
NeedChunkWithoutFloor(n_selected, max_default, contributes) == contributes

\* need_chunk as a bug would have it: every chunk is needed
NeedChunkAlways(n_selected, max_default, contributes) == TRUE

\* need_chunk as a bug would have it: the first max_default by rank and
\* no more
NeedChunkOnlyFloor(n_selected, max_default, contributes) == n_selected < max_default

\* need_chunk: always below max_default, beyond it only for a contribution
NeedChunk(n_selected, max_default, contributes) ==
    n_selected < max_default \/ contributes

\* the loop over the sorted matches from position k, with the loop's locals:
\* the result is selected_indices
RECURSIVE CitationLoop(_, _, _, _, _, _, _, _, _)
CitationLoop(sorted, k, max_default, answer_token_set, selected_indices, covered_tokens, covered_fragments, covered_sections, span_covered) ==
    IF k > Len(sorted) THEN selected_indices
    ELSE
      LET match         == sorted[k]
          section       == match.section
          tokens        == match.tokens
          new_tokens    == answer_token_set # {} /\ tokens \ covered_tokens # {}
          new_fragments == match.fragment_matches \ covered_fragments # {}
          new_span      == match.span_match /\ ~span_covered
          contributes_section ==
              /\ section # <<>>
              /\ section \notin covered_sections
              /\ (match.span_match \/ match.fragment_matches # {}
                      \/ match.token_overlap # 0)
          need_chunk ==
              NeedChunk(Len(selected_indices), max_default,
                        new_span \/ new_fragments \/ new_tokens \/ contributes_section)
      IN  IF ~need_chunk
          THEN CitationLoop(sorted, k + 1, max_default, answer_token_set,
                            selected_indices, covered_tokens, covered_fragments,
                            covered_sections, span_covered)
          ELSE CitationLoop(sorted, k + 1, max_default, answer_token_set,
                            Append(selected_indices, match.index),
                            covered_tokens \cup tokens,
                            covered_fragments \cup match.fragment_matches,
                            IF section # <<>> THEN covered_sections \cup {section}
                                              ELSE covered_sections,
                            span_covered \/ match.span_match)

\* the list `matches`, one entry for each chunk, in input order
CitationMatches(cleaned_answer, chunks) ==
    LET normalized_answer == Apply("_normalize_for_match", <<cleaned_answer>>)
        fragments         == Apply("_extract_answer_fragments", <<cleaned_answer>>)
        answer_tokens     == Apply("_chunk_keyword_tokens", <<cleaned_answer>>)
    IN  [index \in 1..Len(chunks) |->
            Apply("MatchEntry", <<normalized_answer, fragments, answer_tokens, chunks, index>>)]

\* matches.sort(key=...): the entry at rank r has r - 1 entries before it
SortedMatches(matches) ==
    LET n    == Len(matches)
        rank == [i \in 1..n |->
                    Cardinality({j \in 1..n : CitationKeyLess(matches[j], matches[i])})]
    IN  [r \in 1..n |-> matches[CHOOSE i \in 1..n : rank[i] = r - 1]]

\* selected_indices of _select_citations (1-based); for the early return
\* context_chunks[:max_default] the indices of that slice
SelectedCitationIndices(answer, chunks, max_default) ==
    LET cleaned_answer == Apply("clean_answer_text", <<answer>>)
        n       == Len(chunks)
        matches == Apply("CitationMatches", <<cleaned_answer, chunks>>)
    IN  IF chunks = <<>> THEN <<>>
        ELSE IF cleaned_answer = <<>> THEN [k \in 1..Min(max_default, n) |-> k]
        ELSE CitationLoop(SortedMatches(matches), 1, max_default,
                          TokenSet(Apply("_chunk_keyword_tokens", <<cleaned_answer>>)),
                          <<>>, {}, {}, {}, FALSE)

\* the default of the keyword argument max_default
MAX_DEFAULT_CITATIONS == 3

_select_citations(answer, chunks) ==
    LET selected_indices == Apply("SelectedCitationIndices", <<answer, chunks, MAX_DEFAULT_CITATIONS>>)
    IN  [k \in 1..Len(selected_indices) |-> chunks[selected_indices[k]]]

(***************************************************************************)
(* The answer aligner: align_answer_to_context                             *)
(***************************************************************************)
\* the words of _SECONDARY_REQUIREMENT_SPLIT_PATTERN
SECONDARY_REQUIREMENT_WORDS ==
    { <<"A", "b", "l", "e">>, <<"A", "g", "r", "e", "e", "m", "e", "n", "t">>,
      <<"C", "o", "m", "p", "l", "e", "t", "e", "d">>,
      <<"C", "u", "r", "r", "e", "n", "t", "l", "y">>,
      <<"D", "o", "c", "u", "m", "e", "n", "t", "e", "d">>,
      <<"E", "l", "e", "v", "a", "t", "e", "d">>,
      <<"E", "l", "i", "g", "i", "b", "l", "e">>,
      <<"E", "x", "c", "l", "u", "s", "i", "o", "n">>,
      <<"F", "e", "m", "a", "l", "e">>, <<"H", "a", "v", "e">>,
      <<"H", "i", "s", "t", "o", "r", "y">>,
      <<"I", "n", "c", "l", "u", "s", "i", "o", "n">>, <<"M", "a", "l", "e">>,
      <<"M", "u", "s", "t">>, <<"N", "e", "e", "d">>,
      <<"N", "e", "e", "d", "s">>, <<"N", "o">>, <<"N", "o", "t">>,
      <<"P", "r", "i", "m", "a", "r", "i", "l", "y">>,
      <<"P", "r", "o", "v", "i", "d", "e">>,
      <<"R", "e", "q", "u", "i", "r", "e">>,
      <<"R", "e", "q", "u", "i", "r", "e", "s">>,
      <<"S", "h", "o", "u", "l", "d">>, <<"W", "i", "l", "l", "i", "n", "g">>,
      <<"W", "i", "t", "h", "o", "u", "t">>, <<"W", "o", "m", "e", "n">>,
      <<"M", "e", "n">>, <<"E", "C", "O", "G">>,
      <<"K", "a", "r", "n", "o", "f", "s", "k", "y">>, <<"N", "Y", "H", "A">>,
      <<"B", "M", "I">>, <<"A", "N", "C">>,
      <<"P", "l", "a", "t", "e", "l", "e", "t">>,
      <<"H", "e", "m", "o", "g", "l", "o", "b", "i", "n">>,
      <<"C", "r", "e", "a", "t", "i", "n", "i", "n", "e">>, <<"A", "S", "T">>,
      <<"A", "L", "T">>, <<"B", "i", "l", "i", "r", "u", "b", "i", "n">>,
      <<"I", "N", "R">>, <<"Q", "T", "c">>, <<"B", "l", "o", "o", "d">>,
      <<"S", "y", "s", "t", "o", "l", "i", "c">>,
      <<"D", "i", "a", "s", "t", "o", "l", "i", "c">>,
      <<"G", "l", "u", "c", "o", "s", "e">>,
      <<"P", "r", "e", "g", "n", "a", "n", "t">>,
      <<"P", "r", "e", "g", "n", "a", "n", "c", "y">>,
      <<"C", "o", "n", "t", "r", "a", "c", "e", "p", "t", "i", "o", "n">> }

_FALLBACK_ANSWER_MARKERS ==
    { <<"i", " ", "d", "o", "n", "'", "t", " ", "k", "n", "o", "w">>,
      <<"i", " ", "d", "o", " ", "n", "o", "t", " ", "k", "n", "o", "w">>,
      <<"d", "o", "n", "'", "t", " ", "k", "n", "o", "w">>,
      <<"d", "o", " ", "n", "o", "t", " ", "k", "n", "o", "w">>,
      <<"n", "o", "t", " ", "p", "r", "o", "v", "i", "d", "e", "d">>,
      <<"n", "o", "t", " ", "s", "p", "e", "c", "i", "f", "i", "e", "d">>,
      <<"n", "o", "t", " ", "s", "u", "r", "e">>,
      <<"n", "o", " ", "i", "n", "f", "o", "r", "m", "a", "t", "i", "o", "n">>,
      <<"i", "n", "f", "o", "r", "m", "a", "t", "i", "o", "n", " ", "n", "o", "t", " ", "p", "r", "o", "v", "i", "d", "e", "d">>,
      <<"n", "o", "t", " ", "a", "v", "a", "i", "l", "a", "b", "l", "e">>,
      <<"n", "o", " ", "a", "n", "s", "w", "e", "r">>,
      <<"u", "n", "s", "u", "r", "e">> }

_FALLBACK_NORMALIZED_MARKERS ==
    {Apply("_normalize_for_match", <<marker>>) : marker \in _FALLBACK_ANSWER_MARKERS}

allowed_prefix_roots ==
    { <<"p", "a", "t", "i", "e", "n", "t">>,
      <<"p", "a", "t", "i", "e", "n", "t", "s">>,
      <<"s", "u", "b", "j", "e", "c", "t">>,
      <<"s", "u", "b", "j", "e", "c", "t", "s">>,
      <<"p", "a", "r", "t", "i", "c", "i", "p", "a", "n", "t">>,
      <<"p", "a", "r", "t", "i", "c", "i", "p", "a", "n", "t", "s">>,
      <<"c", "a", "r", "e", "g", "i", "v", "e", "r">>,
      <<"c", "a", "r", "e", "g", "i", "v", "e", "r", "s">>,
      <<"c", "o", "h", "o", "r", "t">>, <<"c", "o", "h", "o", "r", "t", "s">>,
      <<"a", "r", "m">>, <<"a", "r", "m", "s">>,
      <<"e", "l", "i", "g", "i", "b", "l", "e">>, <<"h", "a", "v", "e">>,
      <<"h", "a", "s">>, <<"m", "u", "s", "t">>, <<"b", "e">>, <<"i", "s">>,
      <<"a", "r", "e">>,
      <<"m", "e", "a", "s", "u", "r", "a", "b", "l", "e">> }

qualifying_suffix_markers ==
    { <<"a", "s", " ", "d", "e", "t", "e", "r", "m", "i", "n", "e", "d">>,
      <<"a", "s", " ", "d", "e", "f", "i", "n", "e", "d">>,
      <<"a", "s", " ", "a", "s", "s", "e", "s", "s", "e", "d">>,
      <<"a", "s", " ", "m", "e", "a", "s", "u", "r", "e", "d">>,
      <<"a", "s", " ", "d", "o", "c", "u", "m", "e", "n", "t", "e", "d">>,
      <<"a", "s", " ", "c", "o", "n", "f", "i", "r", "m", "e", "d">>,
      <<"a", "s", " ", "o", "u", "t", "l", "i", "n", "e", "d">>,
      <<"p", "e", "r", " ">>, <<"p", "e", "r", " ", "t", "h", "e">>,
      <<"p", "e", "r", " ", "p", "r", "o", "t", "o", "c", "o", "l">>,
      <<"a", "c", "c", "o", "r", "d", "i", "n", "g", " ", "t", "o">>,
      <<"w", "i", "t", "h", "i", "n", " ">>,
      <<"p", "r", "i", "o", "r", " ", "t", "o">>,
      <<"n", "o", " ", "m", "o", "r", "e", " ", "t", "h", "a", "n">>,
      <<"n", "o", "t", " ", "m", "o", "r", "e", " ", "t", "h", "a", "n">>,
      <<"n", "o", " ", "l", "e", "s", "s", " ", "t", "h", "a", "n">>,
      <<"a", "t", " ", "l", "e", "a", "s", "t">>,
      <<"a", "t", " ", "m", "o", "s", "t">>,
      <<"o", "n", " ", "o", "r", " ", "a", "f", "t", "e", "r">>,
      <<"o", "n", " ", "o", "r", " ", "b", "e", "f", "o", "r", "e">> }

\* (?:\(\d+\)|\d+) at position i: the position after the match, 0 when there
\* is none
NumeralEnd(s, i) ==
    IF i < 1 \/ i > Len(s) THEN 0
    ELSE IF s[i] = "("
         THEN LET d == SkipSet(s, i + 1, DigitSet)
              IN  IF d > i + 1 /\ d <= Len(s) /\ s[d] = ")" THEN d + 1 ELSE 0
    ELSE IF s[i] \in DigitSet THEN SkipSet(s, i, DigitSet)
    ELSE 0

\* [A-Z][body]{1,30}: at position i: the position of the colon that ends the
\* match, 0 when there is none.  The colon is outside the class, so the run
\* of class characters has to be the maximal one
LabelEnd(s, i, body) ==
    IF i < 1 \/ i > Len(s) THEN 0
    ELSE IF s[i] \notin UpperSet THEN 0
    ELSE LET e == SkipSet(s, i + 1, body)
         IN  IF e - (i + 1) >= 1 /\ e - (i + 1) <= 30 /\ e <= Len(s) /\ s[e] = ":"
             THEN e ELSE 0

\* _LABEL_SEGMENT_PATTERN.match(s) at position i
LabelSegmentEnd(s, i) == LabelEnd(s, i, LabelBodySet)

\* _LABEL_SEGMENT_PATTERN.finditer(s) from position i: <<start, end>> of the
\* matches, leftmost first, none overlapping
RECURSIVE LabelSegmentMatches(_, _)
LabelSegmentMatches(s, i) ==
    LET starts == {p \in i..Len(s) : LabelSegmentEnd(s, p) > 0}
        m == CHOOSE p \in starts : \A q \in starts : p <= q
    IN  IF starts = {} THEN <<>>
        ELSE <<<<m, LabelSegmentEnd(s, m)>>>>
                 \o Apply("LabelSegmentMatches", <<s, LabelSegmentEnd(s, m) + 1>>)

\* text.split()[0]: the first whitespace-delimited word, <<>> when none
FirstWord(s) ==
    LET b == SkipSet(s, 1, SpaceSet)
    IN  IF b > Len(s) THEN <<>>
        ELSE SubSeq(s, b, NextInSet(s, b, SpaceSet) - 1)

_is_valid_prefix(prefix_text) ==
    LET stripped == Strip(prefix_text)
        e        == NumeralEnd(stripped, 1)
        n        == Len(stripped)
    IN  IF stripped = <<>> THEN FALSE
        \* re.fullmatch(r"(?:\(\d+\)|\d+)[\.)]\s*", stripped)
        ELSE IF /\ e > 0 /\ e <= n
                /\ stripped[e] \in {".", ")"}
                /\ SkipSet(stripped, e + 1, SpaceSet) = n + 1
             THEN TRUE
        \* re.fullmatch(r"[A-Z0-9 _/\-]{1,30}:", stripped)
        ELSE IF /\ n >= 2 /\ n <= 31
                /\ stripped[n] = ":"
                /\ \A k \in 1..(n - 1) : stripped[k] \in UpperLabelSet
             THEN TRUE
        ELSE RStripSet(FirstWord(Lower(stripped)), {":", "'", "s"})
                 \in allowed_prefix_roots

\* whether a word of _SECONDARY_REQUIREMENT_SPLIT_PATTERN followed by \b
\* starts at position i
RequirementWordAt(s, i) ==
    \E w \in SECONDARY_REQUIREMENT_WORDS :
        /\ StartsAt(s, i, w)
        /\ (i + Len(w) > Len(s) \/ s[i + Len(w)] \notin WordSet)

\* _SECONDARY_REQUIREMENT_SPLIT_PATTERN at position i: the position of the
\* last whitespace character of the match, 0 when none starts there
RequirementSeparatorEnd(s, i) ==
    IF i < 1 \/ i > Len(s) THEN 0
    ELSE IF s[i] \notin SpaceSet THEN 0
    ELSE LET e == SkipSet(s, i, SpaceSet)
         IN  IF RequirementWordAt(s, e) THEN e - 1 ELSE 0

\* _SECONDARY_REQUIREMENT_SPLIT_PATTERN.split(s) from position i
RECURSIVE RequirementSplitFrom(_, _)
RequirementSplitFrom(s, i) ==
    LET starts == {p \in i..Len(s) : RequirementSeparatorEnd(s, p) > 0}
        m == CHOOSE p \in starts : \A q \in starts : p <= q
    IN  IF starts = {} THEN <<From(s, i)>>
        ELSE <<SubSeq(s, i, m - 1)>>
                 \o Apply("RequirementSplitFrom", <<s, RequirementSeparatorEnd(s, m) + 1>>)

_split_secondary_requirements(segment) ==
    LET prefix_end        == LabelSegmentEnd(segment, 1)
        remainder         == From(segment, prefix_end + 1)
        stripped_remainder == Strip(remainder)
        pieces            == Apply("RequirementSplitFrom", <<stripped_remainder, 1>>)
        parts             == NonEmpty([k \in 1..Len(pieces) |-> Strip(pieces[k])])
        first_segment     == Strip(Upto(segment, prefix_end) \o <<" ">> \o parts[1])
    IN  IF segment = <<>> \/ prefix_end = 0 THEN <<>>
        ELSE IF stripped_remainder = <<>> THEN <<>>
        ELSE IF Len(parts) <= 1 THEN <<>>
        ELSE <<first_segment>> \o Tail(parts)

\* appends to acc.segments the items whose lower-case form is not in acc.seen
RECURSIVE AppendUnseen(_, _)
AppendUnseen(acc, items) ==
    IF items = <<>> THEN acc
    ELSE IF Lower(Head(items)) \in acc.seen_segments
         THEN AppendUnseen(acc, Tail(items))
         ELSE AppendUnseen([segments      |-> Append(acc.segments, Head(items)),
                            seen_segments |-> acc.seen_segments \cup {Lower(Head(items))}],
                           Tail(items))

\* the loop of _split_label_segments over positions[idx..]
RECURSIVE LabelSegmentLoop(_, _, _, _)
LabelSegmentLoop(text, positions, idx, acc) ==
    IF idx > Len(positions) THEN acc.segments
    ELSE LET start     == positions[idx]
             end       == IF idx + 1 <= Len(positions) THEN positions[idx + 1] - 1
                          ELSE Len(text)
             candidate == Strip(SubSeq(text, start, end))
         IN  IF candidate = <<>> THEN Apply("LabelSegmentLoop", <<text, positions, idx + 1, acc>>)
             ELSE Apply("LabelSegmentLoop", <<text, positions, idx + 1,
                      AppendUnseen(acc, <<candidate>>
                                            \o Apply("_split_secondary_requirements", <<candidate>>))>>)

_split_label_segments(text) ==
    LET found     == Apply("LabelSegmentMatches", <<text, 1>>)
        accepted(k) ==
            /\ Apply("_is_valid_prefix", <<SubSeq(text, found[k][1], found[k][2])>>)
            /\ (found[k][1] > 1 =>
                    text[found[k][1] - 1] \in {" ", "\t", "\r", "\n", ";", ",", "-"})
        kept      == SelectSeq([k \in 1..Len(found) |-> <<k, found[k][1]>>],
                               LAMBDA e : accepted(e[1]))
        positions == [k \in 1..Len(kept) |-> kept[k][2]]
        leading_segment == Strip(Upto(text, positions[1] - 1))
    IN  IF text = <<>> \/ ~Contains(text, <<":">>) THEN <<>>
        ELSE IF Len(positions) <= 1 THEN <<>>
        ELSE Apply("LabelSegmentLoop", <<text, positions, 1,
                 [segments      |-> IF leading_segment # <<>> THEN <<leading_segment>>
                                    ELSE <<>>,
                  seen_segments |-> {}]>>)

\* Optional values: None is <<>>, a value v is <<v>>
None == <<>>
Some(v) == <<v>>

\* a float quotient n / d is kept as the pair <<n, d>>; 0.0 is <<0, 1>>
Ratio(n, d) == IF d = 0 THEN <<0, 1>> ELSE <<n, d>>
\* a comparison that never finds a ratio below the threshold
RatioNeverBelow(r, n, d) == FALSE
\* r < n / d, r >= n / d, r <= n / d for a pair r and the decimal n / d
RatioBelow(r, n, d)   == r[1] * d < n * r[2]
RatioAtLeast(r, n, d) == r[1] * d >= n * r[2]
RatioAtMost(r, n, d)  == r[1] * d <= n * r[2]
\* int(r * 1000)
Permille(r) == (r[1] * 1000) \div r[2]

\* tuple comparison a > b of two tuples of integers
\* the comparison as a bug would have it: a tuple is greater than its equal
TupleAtLeast(a, b) ==
    \/ a = b
    \/ \E k \in 1..Min(Len(a), Len(b)) :
           a[k] > b[k] /\ \A j \in 1..(k - 1) : a[j] = b[j]
    \/ Len(a) > Len(b) /\ \A j \in 1..Len(b) : a[j] = b[j]

\* tuple(a) > tuple(b) of two score tuples
TupleGreater(a, b) ==
    \/ \E k \in 1..Min(Len(a), Len(b)) :
           a[k] > b[k] /\ \A j \in 1..(k - 1) : a[j] = b[j]
    \/ Len(a) > Len(b) /\ \A j \in 1..Len(b) : a[j] = b[j]

Abs(n) == IF n < 0 THEN 0 - n ELSE n

\* the locals of align_answer_to_context that its nested functions read,
\* computed from the stripped answer and the query (lines 303-343, 408-410)
AlignLocals(stripped_answer, query) ==
    LET cleaned             == Apply("clean_answer_text", <<stripped_answer>>)
        cleaned_reference   == IF cleaned # <<>> THEN cleaned ELSE stripped_answer
        reference_length    == IF Len(cleaned_reference) <= 0 THEN Len(stripped_answer)
                               ELSE Len(cleaned_reference)
        normalized_answer   == Apply("_normalize_for_match", <<cleaned_reference>>)
        answer_tokens       == Apply("_chunk_keyword_tokens", <<cleaned_reference>>)
        lowered_clean       == Lower(cleaned_reference)
        fallback_answer     ==
            \/ \E marker \in _FALLBACK_ANSWER_MARKERS : Contains(lowered_clean, marker)
            \/ normalized_answer # <<>>
                   /\ normalized_answer \in _FALLBACK_NORMALIZED_MARKERS
        base1               == Strip(cleaned_reference)
        base2               == Strip(stripped_answer)
        trailing            == {" ", "\t", ".", ";", ":", ","}
        options             == <<base1, RStripSet(base1, trailing),
                                 base2, RStripSet(base2, trailing)>>
    IN  [stripped_answer     |-> stripped_answer,
         cleaned_reference   |-> cleaned_reference,
         reference_length    |-> reference_length,
         normalized_answer   |-> normalized_answer,
         fragments           |-> Apply("_extract_answer_fragments", <<cleaned_reference>>),
         answer_tokens       |-> answer_tokens,
         answer_token_set    |-> TokenSet(answer_tokens),
         query_tokens        |-> IF query # <<>> THEN Apply("_chunk_keyword_tokens", <<query>>)
                                 ELSE <<>>,
         fallback_answer     |-> fallback_answer,
         reference_variants  |->
             AppendUnseen([segments |-> <<>>, seen_segments |-> {}],
                          NonEmpty(options)).segments,
         total_token_count   |-> Len(answer_tokens),
         allow_query_only_matches |-> fallback_answer \/ Len(answer_tokens) = 0]

_evaluate_candidate(loc, candidate_text) ==
    LET candidate_stripped   == Strip(candidate_text)
        normalized_candidate == Apply("_normalize_for_match", <<candidate_stripped>>)
        chunk_tokens         == Apply("_chunk_keyword_tokens", <<candidate_stripped>>)
        chunk_token_set      == TokenSet(chunk_tokens)
        query_token_set      == TokenSet(loc.query_tokens)
        token_overlap        == TokenOverlap(loc.answer_tokens, chunk_tokens)
        unique_overlap       == Cardinality(loc.answer_token_set \cap chunk_token_set)
        query_token_overlap  == TokenOverlap(loc.query_tokens, chunk_tokens)
        query_unique_overlap == Cardinality(query_token_set \cap chunk_token_set)
        fragment_matches     ==
            Cardinality({k \in 1..Len(loc.fragments) :
                            Contains(normalized_candidate, loc.fragments[k])})
        span_match           == loc.normalized_answer # <<>>
                                    /\ Contains(normalized_candidate, loc.normalized_answer)
        query_only_barred    == ~loc.allow_query_only_matches \/ loc.query_tokens = <<>>
        coverage_ratio       == Ratio(token_overlap, loc.total_token_count)
        query_coverage_ratio == Ratio(query_token_overlap, Len(loc.query_tokens))
        total_candidate_tokens == Len(chunk_tokens)
        candidate_length     == Len(candidate_stripped)
        majority_query_overlap ==
            IF total_candidate_tokens # 0
                   /\ query_token_overlap * 2 >= total_candidate_tokens
            THEN 1 ELSE 0
        query_focus_ratio    == Ratio(query_token_overlap, total_candidate_tokens)
        label_bonus          ==
            IF LabelSegmentEnd(candidate_stripped, 1) > 0
                   /\ loc.answer_token_set \cap chunk_token_set # {}
            THEN 1 ELSE 0
    IN  IF candidate_stripped = <<>> THEN None
        ELSE IF normalized_candidate = <<>> THEN None
        ELSE IF chunk_tokens = <<>> THEN None
        ELSE IF /\ ~span_match /\ fragment_matches = 0
                /\ unique_overlap <= 1 /\ query_unique_overlap = 0
                /\ query_only_barred
             THEN None
        ELSE IF /\ ~span_match /\ fragment_matches = 0
                /\ RatioBelow(coverage_ratio, 4, 10)
                /\ RatioBelow(query_coverage_ratio, 4, 10)
                /\ query_only_barred
             THEN None
        ELSE Some(
            [text   |-> candidate_stripped,
             score  |-> <<IF span_match THEN 1 ELSE 0,
                          fragment_matches,
                          Permille(query_focus_ratio),
                          majority_query_overlap,
                          query_unique_overlap,
                          query_token_overlap,
                          unique_overlap,
                          token_overlap,
                          label_bonus,
                          0 - Abs(candidate_length - loc.reference_length),
                          0 - candidate_length>>,
             length |-> candidate_length,
             coverage_ratio           |-> coverage_ratio,
             token_overlap            |-> token_overlap,
             unique_overlap           |-> unique_overlap,
             query_token_overlap      |-> query_token_overlap,
             query_unique_overlap     |-> query_unique_overlap,
             query_coverage_ratio     |-> query_coverage_ratio,
             majority_query_overlap   |-> majority_query_overlap,
             query_focus_ratio        |-> query_focus_ratio,
             candidate_fraction       |-> Ratio(token_overlap, total_candidate_tokens),
             additional_token_count   |-> Max(0, total_candidate_tokens - token_overlap),
             additional_unique_tokens |->
                 Cardinality(chunk_token_set \ loc.answer_token_set),
             total_candidate_tokens   |-> total_candidate_tokens,
             source_chunk             |-> <<>>])

\* the eval of a candidate that only the query matches; it has no score
_evaluate_query_only_candidate(loc, candidate_text) ==
    LET candidate_stripped   == Strip(candidate_text)
        normalized_candidate == Apply("_normalize_for_match", <<candidate_stripped>>)
        chunk_tokens         == Apply("_chunk_keyword_tokens", <<candidate_stripped>>)
        chunk_token_set      == TokenSet(chunk_tokens)
        query_token_overlap  == TokenOverlap(loc.query_tokens, chunk_tokens)
        query_unique_overlap ==
            Cardinality(TokenSet(loc.query_tokens) \cap chunk_token_set)
        total_candidate_tokens == Len(chunk_tokens)
        query_coverage_ratio == Ratio(query_token_overlap, Len(loc.query_tokens))
    IN  IF candidate_stripped = <<>> THEN None
        ELSE IF normalized_candidate = <<>> THEN None
        ELSE IF chunk_tokens = <<>> THEN None
        ELSE IF /\ query_token_overlap = 0 /\ query_unique_overlap = 0
                /\ (~loc.allow_query_only_matches \/ loc.query_tokens = <<>>)
             THEN None
        ELSE Some(
            [text   |-> candidate_stripped,
             score  |-> <<>>,
             length |-> Len(candidate_stripped),
             coverage_ratio           |-> query_coverage_ratio,
             token_overlap            |-> 0,
             unique_overlap           |-> 0,
             query_token_overlap      |-> query_token_overlap,
             query_unique_overlap     |-> query_unique_overlap,
             query_coverage_ratio     |-> query_coverage_ratio,
             majority_query_overlap   |->
                 IF total_candidate_tokens # 0
                        /\ query_token_overlap * 2 >= total_candidate_tokens
                 THEN 1 ELSE 0,
             query_focus_ratio        |-> Ratio(query_token_overlap, total_candidate_tokens),
             candidate_fraction       |-> <<0, 1>>,
             additional_token_count   |-> total_candidate_tokens,
             additional_unique_tokens |-> Cardinality(chunk_token_set),
             total_candidate_tokens   |-> total_candidate_tokens,
             source_chunk             |-> <<>>])

\* appends the delimiter (. or ;) that follows the text in its source chunk
_restore_fragment_text(candidate_eval) ==
    LET text         == candidate_eval.text
        source_chunk == candidate_eval.source_chunk
        start_index  == Find(source_chunk, text, 1)
        suffix       == From(source_chunk, start_index + Len(text))
        e            == SkipSet(suffix, 1, SpaceSet)
    IN  IF text = <<>> \/ source_chunk = <<>> THEN text
        ELSE IF start_index = 0 THEN text
        ELSE IF e <= Len(suffix) /\ suffix[e] \in {".", ";"}
             THEN Append(text, suffix[e])
        ELSE text

\* _LEADING_LIST_NUMERAL_PATTERN.sub("", s)
SubLeadingListNumeral(s) ==
    LET b == SkipSet(s, 1, SpaceSet)
        e == NumeralEnd(s, b)
    IN  IF /\ e > 0 /\ e + 1 <= Len(s)
           /\ s[e] \in {".", ")"}
           /\ s[e + 1] \in SpaceSet
        THEN From(s, SkipSet(s, e + 1, SpaceSet))
        ELSE s

_prepare_aligned_text(candidate_text) ==
    IF candidate_text = <<>> THEN candidate_text
    ELSE Strip(Apply("SubLeadingListNumeral", <<Strip(candidate_text)>>))

\* query_score > best_query_eval[0]: tuples (query_unique, query_tokens,
\* -length, coverage_ratio, token_overlap), the fourth item a float
QueryScoreGreater(a, b) ==
    LET cmp(k) == IF k = 4 THEN a[4][1] * b[4][2] - b[4][1] * a[4][2]
                  ELSE a[k] - b[k]
    IN  \E k \in 1..5 : cmp(k) > 0 /\ \A j \in 1..(k - 1) : cmp(j) = 0

\* the update of best_label_query_candidate: the new value
_maybe_update_label_candidate(loc, best_label_query_candidate, candidate_eval) ==
    LET text        == candidate_eval.text
        prefix_end  == LabelSegmentEnd(text, 1)
        prefix      == Upto(text, prefix_end)
        first       == FirstWord(RStripSet(prefix, {":", " "}))
        root_word   == RStripSet(Lower(first), {"'", "s"})
        candidate_tokens ==
            {root_word,
             IF root_word[Len(root_word)] = "s" THEN RStripSet(root_word, {"s"})
             ELSE Append(root_word, "s")}
        query_overlap == candidate_eval.query_token_overlap
        query_unique  == candidate_eval.query_unique_overlap
        label_score ==
            <<query_unique, query_overlap, Permille(candidate_eval.query_focus_ratio),
              0 - candidate_eval.length, candidate_eval.token_overlap>>
    IN  IF text = <<>> \/ prefix_end = 0 THEN best_label_query_candidate
        ELSE IF first = <<>> \/ root_word = <<>> THEN best_label_query_candidate
        ELSE IF candidate_tokens \cap TokenSet(loc.query_tokens) = {}
             THEN best_label_query_candidate
        ELSE IF query_overlap = 0 /\ query_unique = 0 THEN best_label_query_candidate
        ELSE IF \/ best_label_query_candidate = None
                \/ TupleGreater(label_score, best_label_query_candidate[1].score)
             THEN Some([score |-> label_score, eval |-> candidate_eval])
        ELSE best_label_query_candidate

\* the update of best_query_eval: the new value
_consider_query_candidate(loc, best_query_eval, candidate_eval, source_chunk) ==
    LET query_unique   == candidate_eval.query_unique_overlap
        query_tokens   == candidate_eval.query_token_overlap
        candidate_copy ==
            IF source_chunk # <<>> /\ candidate_eval.source_chunk = <<>>
            THEN [candidate_eval EXCEPT !.source_chunk = source_chunk]
            ELSE candidate_eval
        query_score ==
            <<query_unique, query_tokens, 0 - candidate_copy.length,
              candidate_copy.coverage_ratio, candidate_copy.token_overlap>>
    IN  IF query_unique = 0 /\ query_tokens = 0 /\ ~loc.allow_query_only_matches
        THEN best_query_eval
        ELSE IF \/ best_query_eval = None
                \/ QueryScoreGreater(query_score, best_query_eval[1].score)
             THEN Some([score |-> query_score, eval |-> candidate_copy])
        ELSE best_query_eval

\* str(text).strip() of the chunks whose text is not blank (lines 789-795)
ChunkTexts(context_chunks) ==
    NonEmpty([k \in 1..Len(context_chunks) |-> Strip(context_chunks[k].text)])

\* appends to list the items that are not in it yet
RECURSIVE AppendAbsent(_, _)
AppendAbsent(list, items) ==
    IF items = <<>> THEN list
    ELSE IF \E k \in 1..Len(list) : list[k] = Head(items)
         THEN AppendAbsent(list, Tail(items))
         ELSE AppendAbsent(Append(list, Head(items)), Tail(items))

\* candidate_texts of one fragment of a chunk (lines 822-829), <<>> for a
\* blank fragment
CandidateTexts(fragment) ==
    LET fragment_text == Strip(fragment)
    IN  IF fragment_text = <<>> THEN <<>>
        ELSE AppendAbsent(<<fragment_text>>, Apply("_split_label_segments", <<fragment_text>>))

\* the candidates the loop over one chunk evaluates, in its order: the chunk
\* text, then the candidate texts of each of its fragments
ChunkVisits(chunk_text) ==
    LET pieces == FragmentSplit(chunk_text)
        texts  == Flatten([k \in 1..Len(pieces) |-> Apply("CandidateTexts", <<pieces[k]>>)])
    IN  <<[whole |-> TRUE, text |-> chunk_text, chunk_text |-> chunk_text]>>
            \o [k \in 1..Len(texts) |->
                   [whole |-> FALSE, text |-> Strip(texts[k]), chunk_text |-> chunk_text]]

\* the test as a bug would have it: a candidate that ties with the best one
\* replaces it
TiesOrBeatsBest(score, best_score) == TupleAtLeast(score, best_score)

\* lines 806 and 867: tuple(...["score"]) > best_score
BeatsBest(score, best_score) == TupleGreater(score, best_score)

\* lines 797-819: the chunk text as a candidate
VisitChunk(loc, st, chunk_text) ==
    LET chunk_eval == Apply("_evaluate_candidate", <<loc, chunk_text>>)
        ev         == chunk_eval[1]
        seen       == [st EXCEPT !.seen_candidates = @ \cup {chunk_text}]
        query_only_eval == Apply("_evaluate_query_only_candidate", <<loc, chunk_text>>)
    IN  IF chunk_text \in st.seen_candidates THEN st
        ELSE IF chunk_eval # None
        THEN LET noted ==
                     [seen EXCEPT
                         !.max_token_overlap = Max(@, ev.token_overlap),
                         !.best_label_query_candidate =
                             Apply("_maybe_update_label_candidate", <<loc, @, ev>>),
                         !.best_query_eval =
                             Apply("_consider_query_candidate", <<loc, @, ev, chunk_text>>)]
             IN  IF ev.length <= loc.reference_length
                 THEN IF BeatsBest(ev.score, st.best_score)
                      THEN [noted EXCEPT !.best_candidate = ev.text,
                                         !.best_score = ev.score,
                                         !.best_eval = chunk_eval]
                      ELSE noted
                 ELSE IF \/ st.fallback_eval = None
                         \/ TupleGreater(ev.score, st.fallback_eval[1].score)
                      THEN [noted EXCEPT !.fallback_eval = chunk_eval]
                      ELSE noted
        ELSE IF loc.query_tokens # <<>> /\ query_only_eval # None
        THEN [seen EXCEPT !.best_query_eval =
                 Apply("_consider_query_candidate", <<loc, @, query_only_eval[1], chunk_text>>)]
        ELSE seen

\* lines 832-870: a fragment or label segment of the chunk as a candidate
VisitFragment(loc, st, candidate_stripped, chunk_text) ==
    LET fragment_eval == Apply("_evaluate_candidate", <<loc, candidate_stripped>>)
        ev   == [fragment_eval[1] EXCEPT !.source_chunk = chunk_text]
        seen == [st EXCEPT !.seen_candidates = @ \cup {candidate_stripped}]
        query_only_eval == Apply("_evaluate_query_only_candidate", <<loc, candidate_stripped>>)
        qv   == [query_only_eval[1] EXCEPT !.source_chunk = chunk_text]
    IN  IF candidate_stripped = <<>> \/ candidate_stripped \in st.seen_candidates
        THEN st
        ELSE IF fragment_eval = None
        THEN IF loc.query_tokens # <<>> /\ query_only_eval # None
             THEN [seen EXCEPT
                      !.best_label_query_candidate =
                          Apply("_maybe_update_label_candidate", <<loc, @, qv>>),
                      !.best_query_eval =
                          Apply("_consider_query_candidate", <<loc, @, qv, chunk_text>>)]
             ELSE seen
        ELSE LET noted ==
                     [seen EXCEPT
                         !.max_token_overlap = Max(@, ev.token_overlap),
                         !.best_label_query_candidate =
                             Apply("_maybe_update_label_candidate", <<loc, @, ev>>),
                         !.best_query_eval =
                             Apply("_consider_query_candidate", <<loc, @, ev, chunk_text>>)]
             IN  IF ev.length > loc.reference_length
                 THEN IF \/ st.fallback_fragment_eval = None
                         \/ TupleGreater(ev.score, st.fallback_fragment_eval[1].score)
                      THEN [noted EXCEPT !.fallback_fragment_eval = Some(ev)]
                      ELSE noted
                 ELSE IF BeatsBest(ev.score, st.best_score)
                      THEN [noted EXCEPT !.best_candidate = ev.text,
                                         !.best_score = ev.score,
                                         !.best_eval = Some(ev)]
                      ELSE noted

\* the loop of lines 789-870 over the visits from position k
RECURSIVE CandidateLoop(_, _, _, _)
CandidateLoop(loc, visits, k, st) ==
    IF k > Len(visits) THEN st
    ELSE Apply("CandidateLoop", <<loc, visits, k + 1,
             IF visits[k].whole
             THEN Apply("VisitChunk", <<loc, st, visits[k].chunk_text>>)
             ELSE Apply("VisitFragment", <<loc, st, visits[k].text, visits[k].chunk_text>>)>>)

\* lines 687-715: the locals of the loop before its first iteration
BaselineState(loc) ==
    LET stripped_answer == loc.stripped_answer
        baseline_eval   == Apply("_evaluate_candidate", <<loc, stripped_answer>>)
    IN  [max_token_overlap |-> 0,
         best_candidate    |-> stripped_answer,
         best_score        |->
             IF baseline_eval # None
             THEN <<0>> \o Tail(baseline_eval[1].score)
             ELSE <<0, 0, 0, 0, 0, 0, 0, 0, 0,
                    0 - Abs(Len(stripped_answer) - loc.reference_length),
                    0 - Len(stripped_answer)>>,
         best_eval         |-> baseline_eval,
         seen_candidates   |-> {stripped_answer},
         fallback_fragment_eval     |-> None,
         fallback_eval              |-> None,
         best_query_eval            |-> None,
         best_label_query_candidate |-> None]

\* the locals after the loop of lines 789-870
LoopState(loc, context_chunks) ==
    LET texts  == ChunkTexts(context_chunks)
        visits == Flatten([k \in 1..Len(texts) |-> Apply("ChunkVisits", <<texts[k]>>)])
    IN  Apply("CandidateLoop", <<loc, visits, 1, Apply("BaselineState", <<loc>>)>>)

\* lines 880-889: the label candidate shrunk to its primary requirement when
\* _split_secondary_requirements splits it and the first part evaluates
ShrunkLabel(loc, label_eval) ==
    LET label_text       == label_eval.text
        trimmed_segments == Apply("_split_secondary_requirements", <<label_text>>)
        primary_segment  == trimmed_segments[1]
        trimmed_eval     ==
            IF /\ trimmed_segments # <<>>
               /\ primary_segment # <<>>
               /\ primary_segment # label_text
            THEN Apply("_evaluate_candidate", <<loc, primary_segment>>)
            ELSE None
    IN  IF trimmed_eval # None
        THEN [trimmed_eval[1] EXCEPT !.source_chunk = label_eval.source_chunk]
        ELSE label_eval

\* the label candidate as a bug would select it: whether or not a candidate
\* beat the baseline
LabelSelectionFirst(loc, st) ==
    LET label_eval == Apply("ShrunkLabel", <<loc, st.best_label_query_candidate[1].eval>>)
    IN  IF st.best_label_query_candidate = None THEN st
        ELSE IF label_eval.length # 0 /\ label_eval.length <= loc.reference_length
        THEN [st EXCEPT !.best_candidate = label_eval.text,
                        !.best_eval = Some(label_eval),
                        !.best_score = IF label_eval.score # <<>>
                                       THEN label_eval.score ELSE @]
        ELSE st

\* lines 871-897: the label-query candidate replaces the best candidate when
\* no candidate beat the baseline.  The result is the state with
\* best_candidate, best_eval and best_score as line 898 finds them
LabelSelection(loc, st) ==
    LET label_eval0 == st.best_label_query_candidate[1].eval
        label_eval  == Apply("ShrunkLabel", <<loc, label_eval0>>)
    IN  IF st.best_candidate # loc.stripped_answer
            \/ st.best_label_query_candidate = None
        THEN st
        ELSE IF label_eval0.text = <<>> THEN st
        ELSE IF loc.reference_length <= 0
                   \/ (label_eval.length # 0
                           /\ label_eval.length <= loc.reference_length)
        THEN [st EXCEPT !.best_candidate = label_eval.text,
                        !.best_eval = Some(label_eval),
                        !.best_score = IF label_eval.score # <<>>
                                       THEN label_eval.score ELSE @]
        ELSE st

\* lines 905-962: the query-only replacement; None when the function goes on
QueryReplacement(loc, st) ==
    LET allow_query_replacement ==
            loc.fallback_answer \/ loc.total_token_count = 0
                \/ st.max_token_overlap = 0
        query_eval        == st.best_query_eval[1].eval
        coverage          == query_eval.coverage_ratio
        token_overlap     == query_eval.token_overlap
        length            == query_eval.length
        total_query_token_count == Len(loc.query_tokens)
        min_token_overlap ==
            IF loc.total_token_count # 0
            THEN Max(4, (loc.total_token_count * 4) \div 10)
            ELSE 1
        length_limit      ==
            IF loc.reference_length <= 0 THEN length
            ELSE Max(loc.reference_length + 60, (loc.reference_length * 3) \div 2)
        query_tokens_matched == query_eval.query_token_overlap
        query_unique      == query_eval.query_unique_overlap
        query_coverage    == query_eval.query_coverage_ratio
        meets_first       == RatioAtLeast(coverage, 5, 10)
                                 \/ token_overlap >= min_token_overlap
        query_token_threshold0 ==
            IF total_query_token_count # 0
            THEN Max(1, (total_query_token_count * 3) \div 10)
            ELSE 1
        query_token_threshold ==
            IF total_query_token_count >= 4 THEN Max(query_token_threshold0, 2)
            ELSE query_token_threshold0
        meets_threshold   ==
            IF allow_query_replacement /\ ~meets_first
            THEN IF loc.fallback_answer /\ query_unique = 0 /\ query_tokens_matched = 0
                 THEN TRUE
                 ELSE \/ query_unique >= 2
                      \/ query_unique >= 1 /\ query_tokens_matched >= query_token_threshold
                      \/ RatioAtLeast(query_coverage, 5, 10)
            ELSE meets_first
    IN  IF st.best_query_eval = None THEN None
        ELSE IF ~(allow_query_replacement \/ loc.total_token_count >= 6) THEN None
        ELSE IF ~meets_threshold THEN None
        ELSE IF ~(\/ allow_query_replacement \/ length = 0
                  \/ loc.reference_length <= 0 \/ length <= length_limit)
             THEN None
        ELSE IF query_eval.text = <<>> THEN None
        ELSE IF query_eval.source_chunk # <<>>
             THEN Some(Apply("_prepare_aligned_text", <<Apply("_restore_fragment_text", <<query_eval>>)>>))
        ELSE Some(Apply("_prepare_aligned_text", <<query_eval.text>>))

\* what _should_expand and _expand_reference_from_chunk ask of a suffix
SuffixAllowed(loc, suffix) ==
    LET suffix_tokens      == Apply("_chunk_keyword_tokens", <<suffix>>)
        suffix_token_count == Len(suffix_tokens)
        suffix_length      == Len(suffix)
        suffix_lower       == Lower(suffix)
        suffix_has_marker  ==
            \E marker \in qualifying_suffix_markers : Contains(suffix_lower, marker)
        suffix_shares_answer == loc.answer_token_set \cap TokenSet(suffix_tokens) # {}
    IN  \/ suffix_token_count = 0 /\ suffix_length <= 5
        \/ /\ suffix_token_count <= 12
           /\ suffix_length <= 80
           /\ (suffix_has_marker \/ (suffix_shares_answer /\ suffix_token_count <= 4))

\* one iteration of the loop of _should_expand: "yes" for return True, "next"
\* for continue
ShouldExpandFor(loc, candidate_eval, variant) ==
    LET candidate_text   == candidate_eval.text
        candidate_length == candidate_eval.length
        length_limit     ==
            IF loc.reference_length <= 0 THEN candidate_length
            ELSE Max(loc.reference_length * 2, loc.reference_length + 120)
        idx              == Find(Lower(candidate_text), Lower(variant), 1)
        prefix           == Strip(Upto(candidate_text, idx - 1))
        suffix           == Strip(From(candidate_text, idx + Len(variant)))
        prefix_tokens    == Len(Apply("_chunk_keyword_tokens", <<prefix>>))
        additional_unique == candidate_eval.additional_unique_tokens
        base_condition   ==
            /\ loc.total_token_count >= 4
            /\ additional_unique >= 2
            /\ candidate_eval.additional_token_count >= 3
            /\ RatioAtMost(candidate_eval.candidate_fraction, 7, 10)
            /\ candidate_length <= length_limit
        prefix_valid     ==
            /\ Apply("_is_valid_prefix", <<prefix>>)
            /\ prefix_tokens <= 25
            /\ Len(prefix) <= length_limit
        allow_short_prefix ==
            loc.total_token_count < 4 /\ prefix_tokens <= 12 /\ additional_unique >= 1
    IN  IF variant = <<>> \/ idx = 0 THEN "next"
        ELSE IF prefix = <<>> /\ suffix = <<>> THEN "next"
        ELSE IF candidate_length > length_limit THEN "next"
        ELSE IF suffix # <<>> /\ ~Apply("SuffixAllowed", <<loc, suffix>>) THEN "next"
        ELSE IF prefix = <<>> THEN "yes"
        ELSE IF ~prefix_valid THEN "next"
        ELSE IF base_condition \/ prefix_tokens <= 6 \/ allow_short_prefix THEN "yes"
        ELSE "next"

_should_expand(loc, candidate_eval) ==
    /\ candidate_eval.text # <<>>
    /\ \E k \in 1..Len(loc.reference_variants) :
           Apply("ShouldExpandFor", <<loc, candidate_eval, loc.reference_variants[k]>>) = "yes"

\* The nested functions below take and return Python offsets: an offset n is
\* the number of characters before the place, so text[n] is t[n + 1] here.

\* the match of (?:\(\d+\)|\d+[\.)])\s+ at the start of s: its length, 0 when
\* there is none
ClauseNumeralLength(s) ==
    LET d == SkipSet(s, 2, DigitSet)
        n == SkipSet(s, 1, DigitSet)
        e == IF s = <<>> THEN 0
             ELSE IF s[1] = "("
                  THEN IF d > 2 /\ d <= Len(s) /\ s[d] = ")" THEN d + 1 ELSE 0
             ELSE IF s[1] \in DigitSet
                  THEN IF n <= Len(s) /\ s[n] \in {".", ")"} THEN n + 1 ELSE 0
             ELSE 0
    IN  IF e > 0 /\ e <= Len(s) /\ s[e] \in SpaceSet
        THEN SkipSet(s, e, SpaceSet) - 1
        ELSE 0

_find_clause_start(text, index) ==
    LET stops  == {p \in 1..Min(index, Len(text)) : text[p] \in {".", "!", "?", ";", "\n"}}
        back   == IF stops = {} THEN 0 ELSE CHOOSE p \in stops : \A q \in stops : p >= q
        start  == SkipSet(text, back + 1, SpaceSet) - 1
        prefix_segment == IF start >= index THEN <<>> ELSE SubSeq(text, start + 1, index)
    IN  start + Apply("ClauseNumeralLength", <<prefix_segment>>)

\* re.search(r",\s*(?:\d+[\.)])", s): the position of the comma, 0 when none
ListBoundary(s) ==
    LET hit(p) == /\ s[p] = ","
                  /\ LET d == SkipSet(s, p + 1, SpaceSet)
                         e == SkipSet(s, d, DigitSet)
                     IN  e > d /\ e <= Len(s) /\ s[e] \in {".", ")"}
        hits == {p \in 1..Len(s) : hit(p)}
    IN  IF hits = {} THEN 0 ELSE CHOOSE p \in hits : \A q \in hits : p <= q

\* re.search(r"\s+[A-Z][A-Z0-9 _/\-]{1,30}:", s): the position of the first
\* whitespace character of the match, 0 when none
LabelBoundary(s) ==
    LET hits == {p \in 1..Len(s) :
                    s[p] \in SpaceSet
                        /\ LabelEnd(s, SkipSet(s, p, SpaceSet), UpperLabelSet) > 0}
    IN  IF hits = {} THEN 0 ELSE CHOOSE p \in hits : \A q \in hits : p <= q

\* the first position of punct in s that ends a clause: a period followed by
\* a digit does not; 0 when none
PunctuationBoundary(s, punct) ==
    LET hits == {p \in 1..Len(s) :
                    s[p] = punct
                        /\ ~(punct = "." /\ p + 1 <= Len(s) /\ s[p + 1] \in DigitSet)}
    IN  IF hits = {} THEN 0 ELSE CHOOSE p \in hits : \A q \in hits : p <= q

_find_clause_end(text, index) ==
    LET tail == From(text, index + 1)
        lb   == ListBoundary(tail)
        bb   == Apply("LabelBoundary", <<tail>>)
        nl   == Find(tail, <<"\n">>, 1)
        candidates ==
            (IF lb > 0 THEN {index + lb - 1} ELSE {})
                \cup (IF bb > 0 THEN {index + bb - 1} ELSE {})
                \cup {index + PunctuationBoundary(tail, punct) :
                          punct \in {c \in {".", ";", "!", "?"} :
                                        PunctuationBoundary(tail, c) > 0}}
                \cup (IF nl > 0 THEN {index + nl - 1} ELSE {})
        end  == IF candidates = {} THEN Len(text)
                ELSE CHOOSE c \in candidates : \A d \in candidates : c <= d
        solid == {p \in (index + 1)..end : text[p] \notin SpaceSet}
    IN  IF tail = <<>> THEN Len(text)
        ELSE IF solid = {} THEN Min(index, end)
        ELSE CHOOSE p \in solid : \A q \in solid : p >= q

\* lines 1131-1185 of one iteration: the clause candidate is kept unless what
\* precedes the variant in it is not a valid prefix or what follows it is not
\* an allowed suffix
CheckedClause(loc, lowered_variant, candidate) ==
    LET candidate_lower == Lower(candidate)
        trimmed_variant == RStripSet(lowered_variant, {" ", ".", ";", ":", ","})
        whole       == Find(candidate_lower, lowered_variant, 1)
        trimmed     == Find(candidate_lower, trimmed_variant, 1)
        span        ==
            IF whole > 0 THEN <<whole - 1, Len(lowered_variant)>>
            ELSE IF trimmed_variant # lowered_variant /\ trimmed > 0
                 THEN <<trimmed - 1, Len(trimmed_variant)>>
            ELSE <<0, Len(candidate)>>
        prefix_segment == Strip(Upto(candidate, span[1]))
        suffix_segment == Strip(From(candidate, span[1] + span[2] + 1))
    IN  IF candidate = <<>> THEN None
        ELSE IF prefix_segment # <<>> /\ ~Apply("_is_valid_prefix", <<prefix_segment>>) THEN None
        ELSE IF suffix_segment # <<>> /\ ~Apply("SuffixAllowed", <<loc, suffix_segment>>) THEN None
        ELSE Some(candidate)

\* the clause chunk_text[start:end] of one iteration, None when it is empty
ClauseBetween(loc, chunk_text, lowered_variant, start, end) ==
    IF end <= start THEN None
    ELSE CheckedClause(loc, lowered_variant,
                       Strip(SubSeq(chunk_text, start + 1, end)))

\* the clause around the occurrence of the variant at match_index
ClauseAround(loc, chunk_text, variant, match_index) ==
    ClauseBetween(loc, chunk_text, Lower(variant),
                  Apply("_find_clause_start", <<chunk_text, match_index>>),
                  Apply("_find_clause_end", <<chunk_text, match_index + Len(variant)>>))

\* one iteration of the loop of _expand_reference_from_chunk: the clause
\* around the variant, None for continue
ExpandFor(loc, chunk_text, variant) ==
    IF variant = <<>> \/ Find(Lower(chunk_text), Lower(variant), 1) = 0
    THEN None
    ELSE ClauseAround(loc, chunk_text, variant,
                      Find(Lower(chunk_text), Lower(variant), 1) - 1)

_expand_reference_from_chunk(loc, chunk_text) ==
    LET hits == {k \in 1..Len(loc.reference_variants) :
                    Apply("ExpandFor", <<loc, chunk_text, loc.reference_variants[k]>>) # None}
        first == CHOOSE k \in hits : \A j \in hits : k <= j
    IN  IF chunk_text = <<>> \/ hits = {} THEN None
        ELSE Apply("ExpandFor", <<loc, chunk_text, loc.reference_variants[first]>>)

\* lines 1198-1231: the entry of expanded_candidates for a chunk, None when
\* the chunk adds none
ExpandedCandidate(loc, chunk_text) ==
    LET expanded       == Apply("_expand_reference_from_chunk", <<loc, chunk_text>>)
        prepared       == Apply("_prepare_aligned_text", <<expanded[1]>>)
        candidate_eval == Apply("_evaluate_candidate", <<loc, prepared>>)
    IN  IF expanded = None THEN None
        ELSE IF expanded[1] = <<>> \/ prepared = <<>> THEN None
        ELSE IF Lower(Strip(prepared)) = Lower(loc.stripped_answer) THEN None
        ELSE IF candidate_eval = None
             THEN Some([text  |-> prepared,
                        score |-> <<0, 0, 0, 0, 0, 0, 0,
                                    0 - Abs(Len(prepared) - loc.reference_length),
                                    0 - Len(prepared)>>])
        ELSE Some([text |-> prepared, score |-> candidate_eval[1].score])

\* lines 899-1237, taken after the label selection: the text returned and the
\* path that produced it
\* the fallback as a bug would have it: nothing qualified, nothing is returned
UnchangedEmpty(loc) == [text |-> <<>>, path |-> "unchanged"]

\* line 1237: no candidate qualified, the stripped answer is returned
Unchanged(loc) == [text |-> loc.stripped_answer, path |-> "unchanged"]

AlignResult(loc, context_chunks, loop, st) ==
    LET replaced == Apply("QueryReplacement", <<loc, st>>)
        texts    == ChunkTexts(context_chunks)
        expanded_candidates ==
            Flatten([k \in 1..Len(texts) |-> Apply("ExpandedCandidate", <<loc, texts[k]>>)])
        n        == Len(expanded_candidates)
        \* max(expanded_candidates, key=score): the first of the greatest
        best     == CHOOSE k \in 1..n :
                        /\ \A j \in 1..n : ~TupleGreater(expanded_candidates[j].score,
                                                         expanded_candidates[k].score)
                        /\ \A j \in 1..(k - 1) : expanded_candidates[j].score
                                                     # expanded_candidates[k].score
    IN  IF st.best_candidate # loc.stripped_answer
        THEN [text |-> IF st.best_eval # None /\ st.best_eval[1].source_chunk # <<>>
                       THEN Apply("_prepare_aligned_text", <<Apply("_restore_fragment_text", <<st.best_eval[1]>>)>>)
                       ELSE Apply("_prepare_aligned_text", <<st.best_candidate>>),
              path |-> IF loop.best_candidate # loc.stripped_answer THEN "candidate"
                       ELSE "label"]
        ELSE IF replaced # None
        THEN [text |-> replaced[1], path |-> "query_only"]
        ELSE IF st.fallback_fragment_eval # None
                   /\ Apply("_should_expand", <<loc, st.fallback_fragment_eval[1]>>)
        THEN [text |-> Apply("_prepare_aligned_text", <<
                           Apply("_restore_fragment_text", <<st.fallback_fragment_eval[1]>>)>>),
              path |-> "expanded_fragment"]
        ELSE IF st.fallback_eval # None /\ Apply("_should_expand", <<loc, st.fallback_eval[1]>>)
        THEN [text |-> Apply("_prepare_aligned_text", <<st.fallback_eval[1].text>>),
              path |-> "expanded_chunk"]
        ELSE IF n > 0
        THEN [text |-> expanded_candidates[best].text, path |-> "clause"]
        ELSE Unchanged(loc)

\* the sentinel test as a bug would have it: no answer is a sentinel
NeverSentinel(lowered) == FALSE

\* lines 299-300: the answer starts with a fallback or demo sentinel
IsSentinel(lowered) ==
    \/ StartsAt(lowered, 1, <<"[", "f", "a", "l", "l", "b", "a", "c", "k", "]">>)
    \/ StartsAt(lowered, 1, <<"[", "d", "e", "m", "o", "]">>)

\* what the early returns of lines 290-315 leave undefined
NoTrace ==
    [reference_length |-> 0, best_after_loop |-> <<>>, best_eval_after_loop |-> None,
     fallback_eval_after_loop |-> None, fallback_fragment_eval_after_loop |-> None,
     baseline_score |-> <<>>, label_found |-> None, label_shrunk |-> None]

\* align_answer_to_context with the path that produced the result and, of
\* its locals, those the selection between candidates depends on; a query of
\* None is <<>>
AlignOutcome(answer, context_chunks, query) ==
    LET stripped_answer == Strip(answer)
        loc     == Apply("AlignLocals", <<stripped_answer, query>>)
        loop    == Apply("LoopState", <<loc, context_chunks>>)
        result  == Apply("AlignResult", <<loc, context_chunks, loop, Apply("LabelSelection", <<loc, loop>>)>>)
        found   == loop.best_label_query_candidate
        early(text, path) == [text |-> text, path |-> path, trace |-> NoTrace]
    IN  IF answer = <<>> THEN early(answer, "no_answer")
        ELSE IF context_chunks = <<>> THEN early(answer, "no_chunks")
        ELSE IF stripped_answer = <<>> THEN early(stripped_answer, "blank_answer")
        ELSE IF IsSentinel(Lower(stripped_answer))
        THEN early(stripped_answer, "sentinel")
        ELSE IF /\ loc.normalized_answer = <<>> /\ loc.fragments = <<>>
                /\ loc.answer_token_set = {} /\ loc.query_tokens = <<>>
        THEN early(stripped_answer, "no_signal")
        ELSE [text  |-> result.text,
              path  |-> result.path,
              trace |->
                  [reference_length |-> loc.reference_length,
                   best_after_loop  |-> loop.best_candidate,
                   best_eval_after_loop |-> loop.best_eval,
                   fallback_eval_after_loop |-> loop.fallback_eval,
                   fallback_fragment_eval_after_loop |-> loop.fallback_fragment_eval,
                   baseline_score   |-> Apply("BaselineState", <<loc>>).best_score,
                   label_found      |-> IF found = None THEN None
                                        ELSE Some(found[1].eval),
                   label_shrunk     |-> IF found = None THEN None
                                        ELSE Some(Apply("ShrunkLabel", <<loc, found[1].eval>>))]]

align_answer_to_context(answer, context_chunks, query) ==
    Apply("AlignOutcome", <<answer, context_chunks, query>>).text

\* The call of the program's function f with the arguments args.  Calls go through this one
\* recursive operator, so an expansion of the definitions holds each function
\* once and not once for every path of calls that leads to it.
Dispatch(f, args) ==
    CASE f = "clean_answer_text" -> clean_answer_text(args[1])
      [] f = "CleanedValues" -> CleanedValues(args[1])
      [] f = "align_answer_to_context" -> align_answer_to_context(args[1], args[2], args[3])
      [] f = "AlignOutcome" -> AlignOutcome(args[1], args[2], args[3])
      [] f = "AlignResult" -> AlignResult(args[1], args[2], args[3], args[4])
      [] f = "ExpandedCandidate" -> ExpandedCandidate(args[1], args[2])
      [] f = "_expand_reference_from_chunk" -> _expand_reference_from_chunk(args[1], args[2])
      [] f = "LoopState" -> LoopState(args[1], args[2])
      [] f = "CandidateLoop" -> CandidateLoop(args[1], args[2], args[3], args[4])
      [] f = "LabelSelection" -> LabelSelection(args[1], args[2])
      [] f = "ExpandFor" -> ExpandFor(args[1], args[2], args[3])
      [] f = "VisitFragment" -> VisitFragment(args[1], args[2], args[3], args[4])
      [] f = "VisitChunk" -> VisitChunk(args[1], args[2], args[3])
      [] f = "ChunkVisits" -> ChunkVisits(args[1])
      [] f = "ShrunkLabel" -> ShrunkLabel(args[1], args[2])
      [] f = "CandidateTexts" -> CandidateTexts(args[1])
      [] f = "_split_label_segments" -> _split_label_segments(args[1])
      [] f = "BaselineState" -> BaselineState(args[1])
      [] f = "_evaluate_candidate" -> _evaluate_candidate(args[1], args[2])
      [] f = "_find_clause_end" -> _find_clause_end(args[1], args[2])
      [] f = "_strip_leading_phrases" -> _strip_leading_phrases(args[1])
      [] f = "LabelSegmentLoop" -> LabelSegmentLoop(args[1], args[2], args[3], args[4])
      [] f = "_split_secondary_requirements" -> _split_secondary_requirements(args[1])
      [] f = "AlignLocals" -> AlignLocals(args[1], args[2])
      [] f = "_evaluate_query_only_candidate" -> _evaluate_query_only_candidate(args[1], args[2])
      [] f = "_select_citations" -> _select_citations(args[1], args[2])
      [] f = "_should_expand" -> _should_expand(args[1], args[2])
      [] f = "ShouldExpandFor" -> ShouldExpandFor(args[1], args[2], args[3])
      [] f = "LeadingPhraseRound" -> LeadingPhraseRound(args[1])
      [] f = "SelectedCitationIndices" -> SelectedCitationIndices(args[1], args[2], args[3])
      [] f = "CitationMatches" -> CitationMatches(args[1], args[2])
      [] f = "CitationMatch" -> CitationMatch(args[1], args[2], args[3])
      [] f = "SubCitationMarkers" -> SubCitationMarkers(args[1])
      [] f = "SubCitationFrom" -> SubCitationFrom(args[1], args[2])
      [] f = "_maybe_update_label_candidate" -> _maybe_update_label_candidate(args[1], args[2], args[3])
      [] f = "QueryReplacement" -> QueryReplacement(args[1], args[2])
      [] f = "_is_valid_prefix" -> _is_valid_prefix(args[1])
      [] f = "LabelSegmentMatches" -> LabelSegmentMatches(args[1], args[2])
      [] f = "RequirementSplitFrom" -> RequirementSplitFrom(args[1], args[2])
      [] f = "MatchEntry" -> MatchEntry(args[1], args[2], args[3], args[4], args[5])
      [] f = "SuffixAllowed" -> SuffixAllowed(args[1], args[2])
      [] f = "_select_chunks_for_context" -> _select_chunks_for_context(args[1], args[2])
      [] f = "SubLabelledPrefix" -> SubLabelledPrefix(args[1], args[2])
      [] f = "_extract_answer_fragments" -> _extract_answer_fragments(args[1])
      [] f = "_prepare_aligned_text" -> _prepare_aligned_text(args[1])
      [] f = "_find_clause_start" -> _find_clause_start(args[1], args[2])
      [] f = "SubLeadingListNumeral" -> SubLeadingListNumeral(args[1])
      [] f = "ClauseNumeralLength" -> ClauseNumeralLength(args[1])
      [] f = "SubContextPrefix" -> SubContextPrefix(args[1])
      [] f = "LabelBoundary" -> LabelBoundary(args[1])
      [] f = "_restore_fragment_text" -> _restore_fragment_text(args[1])
      [] f = "ContextLoop" -> ContextLoop(args[1], args[2], args[3], args[4], args[5], args[6])
      [] f = "CitationMarkerEnd" -> CitationMarkerEnd(args[1], args[2])
      [] f = "_format_chunk_prefix" -> _format_chunk_prefix(args[1], args[2])
      [] f = "_truncate_text" -> _truncate_text(args[1], args[2])
      [] f = "_normalize_for_match" -> _normalize_for_match(args[1])
      [] f = "_chunk_keyword_tokens" -> _chunk_keyword_tokens(args[1])
      [] f = "_consider_query_candidate" -> _consider_query_candidate(args[1], args[2], args[3], args[4])

Apply(f, args) == CHOOSE result \in {Dispatch(f, values) : values \in {args}} : TRUE

(***************************************************************************)
(* Specifications.  Each component is a pure function of its request; a    *)
(* specification draws the request in its initial state and applies the    *)
(* component.  The components a specification does not exercise stay Idle. *)
(***************************************************************************)
Idle == [pc |-> "idle"]

\* ---- clean_answer_text ------------------------------------------------
\* Raw answers are concatenations of at most MaxCleanLexemes of these pieces.
CleanLexemes ==
    { <<"a", "n", "s", "w", "e", "r">>, <<":">>, <<"-">>, <<" ">>, <<"x">>,
      <<"(", "1", ")">> }
MaxCleanLexemes == 4
RawAnswers == {Flatten(ls) : ls \in SeqsUpTo(CleanLexemes, MaxCleanLexemes)}

InitClean ==
    /\ cleaner \in [pc : {"ready"}, raw : RawAnswers, results : {<<>>},
                    stripped : {<<>>}]
    /\ budgeter = Idle /\ citer = Idle /\ gateway = Idle /\ aligner = Idle /\ matcher = Idle /\ asker = Idle
    /\ screener = Idle /\ evaluator = Idle /\ searcher = Idle /\ fetcher = Idle

\* ask() cleans the provider's answer (src/app/routers/qa.py)
CleanAnswer ==
    /\ cleaner.pc = "ready"
    /\ cleaner' = [cleaner EXCEPT !.pc = "cleaned",
                       !.results = <<Apply("clean_answer_text", <<cleaner.raw>>)>>,
                       \* the local `cleaned` at the return statement
                       !.stripped = Apply("CleanedValues", <<cleaner.raw>>)[6]]
    /\ UNCHANGED <<budgeter, citer, gateway, aligner, matcher, asker, screener, evaluator, searcher, fetcher>>

\* align_answer_to_context and _select_citations clean what they are given,
\* which ask() has cleaned already
CleanAgain ==
    /\ cleaner.pc = "cleaned"
    /\ cleaner' = [cleaner EXCEPT !.pc = "recleaned",
                       !.results = Append(@, Apply("clean_answer_text", <<cleaner.results[1]>>))]
    /\ UNCHANGED <<budgeter, citer, gateway, aligner, matcher, asker, screener, evaluator, searcher, fetcher>>

NextClean == CleanAnswer \/ CleanAgain
SpecClean == InitClean /\ [][NextClean]_vars

\* ---- _select_chunks_for_context ---------------------------------------
BudgetTexts ==
    { <<>>, <<"a", "b">>, <<"a", " ", " ", "b", "c", "d">>, <<" ", "b", "c", "d">> }
BudgetScores == { <<>>, <<-1>>, <<1>> }
BudgetChunks ==
    [nct_id : {<<"N">>}, section : {<<"S">>}, text : BudgetTexts, score : BudgetScores]
MaxBudgetChunks == 2
MaxBudget == 44

InitBudget ==
    /\ budgeter \in [pc : {"ready"},
                     chunks : SeqsUpTo(BudgetChunks, MaxBudgetChunks),
                     max_chars : 0..MaxBudget,
                     selected : {<<>>}, context : {<<>>},
                     order : {<<>>}, formatted_parts : {<<>>}]
    /\ cleaner = Idle /\ citer = Idle /\ gateway = Idle /\ aligner = Idle /\ matcher = Idle /\ asker = Idle
    /\ screener = Idle /\ evaluator = Idle /\ searcher = Idle /\ fetcher = Idle

\* the request with the pair that _select_chunks_for_context returned
Selected(b, r) ==
    [b EXCEPT !.pc = "done", !.selected = r.selected, !.context = r.context,
              !.order = r.order, !.formatted_parts = r.formatted_parts]

SelectChunksForContext ==
    /\ budgeter.pc = "ready"
    /\ budgeter' = Selected(budgeter,
                        Apply("_select_chunks_for_context", <<budgeter.chunks,
                                                   budgeter.max_chars>>))
    /\ UNCHANGED <<cleaner, citer, gateway, aligner, matcher, asker, screener, evaluator, searcher, fetcher>>

NextBudget == SelectChunksForContext
SpecBudget == InitBudget /\ [][NextBudget]_vars

\* ---- _select_citations ------------------------------------------------
CiteChunks ==
    { [nct_id |-> <<"N">>, section |-> <<"S">>, text |-> <<"a">>, score |-> <<>>],
      [nct_id |-> <<"N">>, section |-> <<"S">>, text |-> <<"b">>, score |-> <<>>],
      [nct_id |-> <<"N">>, section |-> <<"T">>, text |-> <<"a", " ", "b">>, score |-> <<>>],
      [nct_id |-> <<"N">>, section |-> <<>>, text |-> <<"c">>, score |-> <<>>] }
CiteAnswers ==
    { <<>>, <<" ">>, <<"a">>, <<"a", ".", " ", "b">>, <<"b", " ", "c">>, <<"d">> }
MaxCiteChunks == 4

InitCite ==
    /\ citer \in [pc : {"ready"}, answer : CiteAnswers,
                  chunks : SeqsUpTo(CiteChunks, MaxCiteChunks),
                  selected_indices : {<<>>}, citations : {<<>>}]
    /\ cleaner = Idle /\ budgeter = Idle /\ gateway = Idle /\ aligner = Idle /\ matcher = Idle /\ asker = Idle
    /\ screener = Idle /\ evaluator = Idle /\ searcher = Idle /\ fetcher = Idle

SelectCitations ==
    /\ citer.pc = "ready"
    /\ citer' = [citer EXCEPT !.pc = "done",
                     !.selected_indices =
                         Apply("SelectedCitationIndices", <<citer.answer, citer.chunks,
                                                 MAX_DEFAULT_CITATIONS>>),
                     !.citations = Apply("_select_citations", <<citer.answer, citer.chunks>>)]
    /\ UNCHANGED <<cleaner, budgeter, gateway, aligner, matcher, asker, screener, evaluator, searcher, fetcher>>

NextCite == SelectCitations
SpecCite == InitCite /\ [][NextCite]_vars

\* ---- call_llm_with_citations ------------------------------------------
\* An exception is represented by the set of class names it is an instance
\* of; the environment by a function from the importable provider modules
\* to the exception classes each of them exposes.
_load_error_types(installed, module_name, class_names) ==
    IF module_name \notin DOMAIN installed
    THEN {}
    ELSE { name \in class_names : name \in installed[module_name] }

_get_openai_error_types(installed) ==
    _load_error_types(installed, "openai",
        {"BadRequestError", "RateLimitError", "APIError", "APIStatusError",
         "OpenAIError"})

\* The subclasses of ClientError that the code appends after it match only
\* exceptions that ClientError matches already, so ClientError stands for them.
_get_gemini_error_types(installed) ==
    LET provider_errors ==
            _load_error_types(installed, "google.api_core.exceptions",
                {"GoogleAPIError", "InvalidArgument", "ResourceExhausted",
                 "TooManyRequests"})
    IN  IF "google.genai.errors" \notin DOMAIN installed
        THEN provider_errors
        ELSE IF "ClientError" \in installed["google.genai.errors"]
             THEN provider_errors \cup {"ClientError"}
             ELSE provider_errors

_is_provider_error(exc, candidates) ==
    \E candidate \in candidates : candidate \in exc

EveryExceptionIsProviderError(exc, provider_errors) == TRUE

\* is_provider_error = not provider_errors or _is_provider_error(...)
is_provider_error(exc, provider_errors) ==
    provider_errors = {} \/ _is_provider_error(exc, provider_errors)

_provider_unavailable_answer(num_chunks) ==
        <<"[", "F", "A", "L", "L", "B", "A", "C", "K", "]", " ", "U", "n",
          "a", "b", "l", "e", " ", "t", "o", " ", "r", "e", "a", "c", "h",
          " ", "t", "h", "e", " ", "l", "a", "n", "g", "u", "a", "g", "e",
          " ", "m", "o", "d", "e", "l", ".", " ", "B", "a", "s", "e", "d",
          " ", "o", "n", " ">>
        \o DecimalString(num_chunks) \o
        <<" ", "r", "e", "t", "r", "i", "e", "v", "e", "d", " ", "p", "a",
          "s", "s", "a", "g", "e", "s", ",", " ", "s", "e", "e", " ", "c",
          "i", "t", "a", "t", "i", "o", "n", "s", ".">>

_demo_answer(num_chunks) ==
        <<"[", "D", "E", "M", "O", "]", " ", "B", "a", "s", "e", "d", " ",
          "o", "n", " ">>
        \o DecimalString(num_chunks) \o
        <<" ", "r", "e", "t", "r", "i", "e", "v", "e", "d", " ", "p", "a",
          "s", "s", "a", "g", "e", "s", ",", " ", "s", "e", "e", " ", "c",
          "i", "t", "a", "t", "i", "o", "n", "s", ".">>

max_attempts == 3
base_delay == 1

ConstantDelay(attempt) == base_delay

sleep_seconds(attempt) == base_delay * 2 ^ (attempt - 1)

\* max_chars: the configured budget when it is a positive int, else the default
ContextBudget(llm_context_char_budget) ==
    IF llm_context_char_budget = <<>> \/ llm_context_char_budget[1] <= 0
    THEN DEFAULT_CONTEXT_CHAR_BUDGET
    ELSE llm_context_char_budget[1]

ProviderConfigured(settings) ==
    settings.llm_provider \in {"openai", "gemini"} /\ settings.llm_api_key # <<>>

GatewayTexts == { <<"x">>, <<"s", "e", "e">> }
GatewayChunks ==
    { [nct_id |-> <<"N">>, section |-> <<"S">>, text |-> t, score |-> <<>>] :
          t \in GatewayTexts }
MaxGatewayChunks == 2
SmallBudget == 20
GatewaySettings ==
    [llm_provider : {"openai", "gemini", "none"},
     llm_api_key : {<<>>, <<"k">>},
     llm_context_char_budget : {<<>>, <<0>>, <<SmallBudget>>}]
ProviderModules == {"openai", "google.api_core.exceptions", "google.genai.errors"}
ExposedClasses ==
    [m \in ProviderModules |->
        CASE m = "openai" ->
                 {"BadRequestError", "RateLimitError", "APIError",
                  "APIStatusError", "OpenAIError"}
          [] m = "google.api_core.exceptions" ->
                 {"GoogleAPIError", "InvalidArgument", "ResourceExhausted",
                  "TooManyRequests"}
          [] OTHER -> {"ClientError", "ServerError"}]
\* every set of importable modules with their classes, and an openai module
\* that exposes one of the named classes or none of them
ProviderEnvironments ==
    { [m \in D |-> ExposedClasses[m]] : D \in SUBSET ProviderModules }
    \cup { [m \in {"openai"} |-> {"RateLimitError"}],
           [m \in {"openai"} |-> {}] }
RaisedExceptions ==
    { {"RateLimitError", "APIStatusError", "APIError", "OpenAIError"},
      {"ResourceExhausted", "GoogleAPIError"},
      {"AttributeError"} }
ModelAnswers == { <<>>, <<"x">> }

InitGateway ==
    /\ gateway \in [pc : {"called"}, settings : GatewaySettings,
                    installed : ProviderEnvironments,
                    chunks : SeqsUpTo(GatewayChunks, MaxGatewayChunks),
                    bounded_chunks : {<<>>}, context : {<<>>},
                    provider_errors : {{}}, attempt : {0}, calls : {0},
                    sleeps : {<<>>}, raised : {<<>>}, outcome : {"none"},
                    answer : {<<>>}, citations : {<<>>}, status_code : {0}]
    /\ cleaner = Idle /\ budgeter = Idle /\ citer = Idle /\ aligner = Idle /\ matcher = Idle /\ asker = Idle
    /\ screener = Idle /\ evaluator = Idle /\ searcher = Idle /\ fetcher = Idle

\* lines 1429-1434: the request with the bounded chunks and the context text
WithContext(g, r) ==
    [g EXCEPT !.bounded_chunks = r.selected, !.context = r.context]

BoundContext(g) ==
    WithContext(g, Apply("_select_chunks_for_context", <<g.chunks,
                       ContextBudget(g.settings.llm_context_char_budget)>>))

\* the return as a bug would have it: citations taken from every retrieved
\* chunk, whether or not it went into the context
ReturnedCitingRetrieved(g, outcome, answer) ==
    [g EXCEPT !.pc = "returned",
              !.outcome = outcome,
              !.answer = answer,
              !.citations = Apply("_select_citations", <<answer, g.chunks>>)]

\* return answer, _select_citations(answer, bounded_chunks)
Returned(g, outcome, answer) ==
    [g EXCEPT !.pc = "returned",
              !.outcome = outcome,
              !.answer = answer,
              !.citations = Apply("_select_citations", <<answer, g.bounded_chunks>>)]

\* lines 1544-1545
DemoReturn(g) == Returned(g, "demo", _demo_answer(Len(g.bounded_chunks)))

\* lines 1473-1480
FallbackReturn(g) ==
    Returned(g, "fallback", _provider_unavailable_answer(Len(g.bounded_chunks)))

\* lines 1429-1440 for a configured provider: bound the context, load the
\* provider's error types and enter the retry loop
EnterRetryLoop ==
    /\ gateway.pc = "called"
    /\ ProviderConfigured(gateway.settings)
    /\ gateway' = [BoundContext(gateway) EXCEPT
                       !.pc = "attempting",
                       !.provider_errors =
                           IF gateway.settings.llm_provider = "openai"
                           THEN _get_openai_error_types(gateway.installed)
                           ELSE _get_gemini_error_types(gateway.installed),
                       !.attempt = 1]
    /\ UNCHANGED <<cleaner, budgeter, citer, aligner, matcher, asker, screener, evaluator, searcher, fetcher>>

\* lines 1429-1436, 1544-1545: no provider or no key
ReturnDemoAnswer ==
    /\ gateway.pc = "called"
    /\ ~ProviderConfigured(gateway.settings)
    /\ gateway' = DemoReturn(BoundContext(gateway))
    /\ UNCHANGED <<cleaner, budgeter, citer, aligner, matcher, asker, screener, evaluator, searcher, fetcher>>

\* the provider call of this attempt succeeds
ProviderAnswers ==
    /\ gateway.pc = "attempting"
    /\ \E answer \in ModelAnswers :
           gateway' = Returned([gateway EXCEPT !.calls = @ + 1], "answer", answer)
    /\ UNCHANGED <<cleaner, budgeter, citer, aligner, matcher, asker, screener, evaluator, searcher, fetcher>>

\* the call raises a provider error before the last attempt: sleep, continue
RetryAfterProviderError ==
    /\ gateway.pc = "attempting"
    /\ gateway.attempt < max_attempts
    /\ \E exc \in RaisedExceptions :
           /\ is_provider_error(exc, gateway.provider_errors)
           /\ gateway' = [gateway EXCEPT !.calls = @ + 1,
                              !.raised = Append(@, exc),
                              !.sleeps = Append(@, sleep_seconds(gateway.attempt)),
                              !.attempt = @ + 1]
    /\ UNCHANGED <<cleaner, budgeter, citer, aligner, matcher, asker, screener, evaluator, searcher, fetcher>>

\* the call raises a provider error on the last attempt: fallback answer
FallbackAfterLastAttempt ==
    /\ gateway.pc = "attempting"
    /\ gateway.attempt = max_attempts
    /\ \E exc \in RaisedExceptions :
           /\ is_provider_error(exc, gateway.provider_errors)
           /\ gateway' = FallbackReturn([gateway EXCEPT !.calls = @ + 1,
                                             !.raised = Append(@, exc)])
    /\ UNCHANGED <<cleaner, budgeter, citer, aligner, matcher, asker, screener, evaluator, searcher, fetcher>>

\* the call raises anything else: HTTPException(502)
RaiseGatewayError ==
    /\ gateway.pc = "attempting"
    /\ \E exc \in RaisedExceptions :
           /\ ~is_provider_error(exc, gateway.provider_errors)
           /\ gateway' = [gateway EXCEPT !.pc = "raised",
                              !.calls = @ + 1,
                              !.raised = Append(@, exc),
                              !.outcome = "error",
                              !.status_code = 502]
    /\ UNCHANGED <<cleaner, budgeter, citer, aligner, matcher, asker, screener, evaluator, searcher, fetcher>>

NextGateway ==
    \/ EnterRetryLoop
    \/ ReturnDemoAnswer
    \/ ProviderAnswers
    \/ RetryAfterProviderError
    \/ FallbackAfterLastAttempt
    \/ RaiseGatewayError
SpecGateway == InitGateway /\ [][NextGateway]_vars

\* ---- align_answer_to_context ------------------------------------------
AlignAnswers ==
    { <<>>, <<" ">>, <<"x">>, <<"?">>, <<"x", " ", "y">>,
      <<"b", "e", " ", "1", ".">>,
      <<"x", ".", ".", ".", ".", ".", ".", ".">>,
      <<"n", "o", "t", " ", "s", "u", "r", "e">>,
      <<"[", "D", "e", "m", "o", "]", " ", "b", "e", " ">>,
      <<"x", " ">> }
AlignQueries == { <<>>, <<"b", "e">>, <<"b", "e", " ", "b", "e">> }
AlignTexts ==
    { <<" ">>,
      <<"B", "e", ":", "x", " ", "N", "o">>,
      <<"B", "e", ":", " ", "x", ".", " ", "b", "e", " ", "b", "e", " ", "x">>,
      <<"b", "e", ":", " ", "x">>,
      <<"(", "2", ")", " ", "x">>,
      <<"z", "!", " ", "x", " ", "y", " ", "w", "i", "t", "h", "i", "n", " ", "1">> }
AlignChunks == { [text |-> t] : t \in AlignTexts }
MaxAlignChunks == 2

InitAlign ==
    /\ aligner \in [pc : {"ready"}, answer : AlignAnswers, query : AlignQueries,
                    context_chunks : SeqsUpTo(AlignChunks, MaxAlignChunks),
                    result : {<<>>}, path : {"none"}, trace : {NoTrace}]
    /\ cleaner = Idle /\ budgeter = Idle /\ citer = Idle /\ gateway = Idle /\ matcher = Idle /\ asker = Idle
    /\ screener = Idle /\ evaluator = Idle /\ searcher = Idle /\ fetcher = Idle

\* ask() aligns the cleaned answer to the cited chunks (src/app/routers/qa.py)
\* the request with the text that align_answer_to_context returned, the
\* return statement that produced it, and the locals it was chosen from
Aligned(a, outcome) ==
    [a EXCEPT !.pc = "done",
              !.result = outcome.text,
              !.path = outcome.path,
              !.trace = outcome.trace]

AlignAnswerToContext ==
    /\ aligner.pc = "ready"
    /\ aligner' = Aligned(aligner,
                       Apply("AlignOutcome", <<aligner.answer, aligner.context_chunks,
                                    aligner.query>>))
    /\ UNCHANGED <<cleaner, budgeter, citer, gateway, matcher, asker, screener, evaluator, searcher, fetcher>>

NextAlign == AlignAnswerToContext
SpecAlign == InitAlign /\ [][NextAlign]_vars

\* ---- _evaluate_candidate on its own ------------------------------------
\* the answers and queries of the enclosing align_answer_to_context call and
\* the candidate texts handed to the scorer
ScoreAnswers ==
    { <<"x">>, <<"?">>, <<"a", " ", "b">>, <<"a", ".", " ", "b">>,
      <<"a", " ", "b", " ", "c", " ", "d", " ", "e", " ", "f">>,
      <<"n", "o", "t", " ", "s", "u", "r", "e">> }
ScoreQueries == { <<>>, <<"b", "e">>, <<"a", " ", "b", " ", "c">> }
ScoreCandidates ==
    { <<>>, <<" ">>, <<"?">>, <<"a">>, <<"x">>, <<"z">>, <<"b", "e">>,
      <<"a", " ", "b">>, <<"a", " ", "b", " ", "z">>, <<"a", " ", "b", " ", "c">>,
      <<"b", "e", " ", "z">>, <<" ", "b", " ", "z", " ">> }

InitScore ==
    /\ matcher \in [pc : {"ready"}, answer : ScoreAnswers, query : ScoreQueries,
                    candidate_text : ScoreCandidates, eval : {None}]
    /\ cleaner = Idle /\ budgeter = Idle /\ citer = Idle /\ gateway = Idle
    /\ aligner = Idle /\ asker = Idle
    /\ screener = Idle /\ evaluator = Idle /\ searcher = Idle /\ fetcher = Idle

\* the call with what _evaluate_candidate returned
Scored(m, eval) == [m EXCEPT !.pc = "done", !.eval = eval]

EvaluateCandidate ==
    /\ matcher.pc = "ready"
    /\ matcher' = Scored(matcher,
                      Apply("_evaluate_candidate",
                            <<Apply("AlignLocals", <<Strip(matcher.answer), matcher.query>>),
                              matcher.candidate_text>>))
    /\ UNCHANGED <<cleaner, budgeter, citer, gateway, aligner, asker, screener, evaluator, searcher, fetcher>>

NextScore == EvaluateCandidate
SpecScore == InitScore /\ [][NextScore]_vars

\* ---- _extract_answer_fragments on its own ------------------------------
\* every text of up to MaxFragmentChars characters over a letter, a digit,
\* a space and the three separators
FragmentChars == {"a", "1", " ", ".", ";", "\n"}
MaxFragmentChars == 4

InitFragments ==
    /\ matcher \in [pc : {"ready"}, text : SeqsUpTo(FragmentChars, MaxFragmentChars),
                    fragments : {<<>>}]
    /\ cleaner = Idle /\ budgeter = Idle /\ citer = Idle /\ gateway = Idle
    /\ aligner = Idle /\ asker = Idle
    /\ screener = Idle /\ evaluator = Idle /\ searcher = Idle /\ fetcher = Idle

\* the call with the fragments that were returned
Fragmented(m, fragments) == [m EXCEPT !.pc = "done", !.fragments = fragments]

ExtractAnswerFragments ==
    /\ matcher.pc = "ready"
    /\ matcher' = Fragmented(matcher,
                      Apply("_extract_answer_fragments", <<matcher.text>>))
    /\ UNCHANGED <<cleaner, budgeter, citer, gateway, aligner, asker, screener, evaluator, searcher, fetcher>>

NextFragments == ExtractAnswerFragments
SpecFragments == InitFragments /\ [][NextFragments]_vars

(***************************************************************************)
(* The /ask handler: src/app/routers/qa.py                                 *)
(***************************************************************************)
\* a retrieved chunk is a dict; has_text tells whether it has the key "text"
\* (chunk.get("text", "") of a dict without the key is the empty string)
AskTexts == { <<>>, <<"x">>, <<"s", "e", "e">> }
AskChunks ==
    { [nct_id |-> <<"N">>, section |-> <<"S">>, text |-> t, score |-> <<>>,
       has_text |-> TRUE] : t \in AskTexts }
    \cup { [nct_id |-> <<"N">>, section |-> <<"S">>, text |-> <<>>, score |-> <<>>,
            has_text |-> FALSE] }
MaxAskChunks == 2
AskQueries == { <<" ">>, <<"b", "e">> }
AskSettings ==
    [llm_provider : {"openai", "none"}, llm_api_key : {<<"k">>},
     llm_context_char_budget : {<<>>, <<SmallBudget>>}]
AskEnvironments ==
    { [m \in {"openai"} |-> ExposedClasses[m]], [m \in {"openai"} |-> {}] }

InitAsk ==
    /\ asker \in [pc : {"received"}, query : AskQueries,
                  chunks : SeqsUpTo(AskChunks, MaxAskChunks),
                  settings : AskSettings, installed : AskEnvironments,
                  cleaned_answer : {<<>>}, alignment_context : {<<>>},
                  final_answer : {<<>>}, citations : {<<>>},
                  outcome : {"none"}, status_code : {0}]
    /\ cleaner = Idle /\ budgeter = Idle /\ citer = Idle /\ gateway = Idle
    /\ aligner = Idle /\ matcher = Idle
    /\ screener = Idle /\ evaluator = Idle /\ searcher = Idle /\ fetcher = Idle

\* raise HTTPException(status_code=...) or an exception nothing catches
Raised(a, outcome, status_code) ==
    [a EXCEPT !.pc = "raised", !.outcome = outcome, !.status_code = status_code]

\* lines 35-36: no query, or a blank one
RejectBlankQuery ==
    /\ asker.pc = "received"
    /\ Strip(asker.query) = <<>>
    /\ asker' = Raised(asker, "HTTPException", 400)
    /\ UNCHANGED <<cleaner, budgeter, citer, gateway, aligner, matcher,
                   screener, evaluator, searcher, fetcher>>

\* lines 39-41: retrieve_chunks found nothing
RejectWithoutPassages ==
    /\ asker.pc = "received"
    /\ Strip(asker.query) # <<>>
    /\ asker.chunks = <<>>
    /\ asker' = Raised(asker, "HTTPException", 404)
    /\ UNCHANGED <<cleaner, budgeter, citer, gateway, aligner, matcher,
                   screener, evaluator, searcher, fetcher>>

\* line 42: call_llm_with_citations(body.query, chunks) is entered
CallGateway ==
    /\ asker.pc = "received"
    /\ Strip(asker.query) # <<>>
    /\ asker.chunks # <<>>
    /\ asker' = [asker EXCEPT !.pc = "waiting"]
    /\ gateway' = [pc |-> "called", settings |-> asker.settings,
                   installed |-> asker.installed, chunks |-> asker.chunks,
                   bounded_chunks |-> <<>>, context |-> <<>>,
                   provider_errors |-> {}, attempt |-> 0, calls |-> 0,
                   sleeps |-> <<>>, raised |-> <<>>, outcome |-> "none",
                   answer |-> <<>>, citations |-> <<>>, status_code |-> 0]
    /\ UNCHANGED <<cleaner, budgeter, citer, aligner, matcher,
                   screener, evaluator, searcher, fetcher>>

\* the HTTPException(502) of call_llm_with_citations passes through ask
PropagateGatewayError ==
    /\ asker.pc = "waiting"
    /\ gateway.pc = "raised"
    /\ asker' = Raised(asker, "HTTPException", gateway.status_code)
    /\ UNCHANGED <<cleaner, budgeter, citer, gateway, aligner, matcher,
                   screener, evaluator, searcher, fetcher>>

\* lines 55-59: Citation(...) subscripts c["text"] of every cited chunk, a
\* KeyError for a dict without the key, which nothing catches (a 500
\* response); otherwise AskResponse(answer=final_answer, citations=...)
Built(a, cits, final_answer) ==
    IF \E k \in 1..Len(cits) : ~cits[k].has_text
    THEN Raised([a EXCEPT !.final_answer = final_answer], "KeyError", 500)
    ELSE [a EXCEPT !.final_answer = final_answer, !.pc = "responded",
                   !.outcome = "AskResponse", !.status_code = 200,
                   !.citations = cits]

\* lines 45-48: align_answer_to_context(...) or cleaned_answer
Refined(cleaned_answer, aligned) ==
    IF aligned # <<>> THEN aligned ELSE cleaned_answer

\* lines 45-54 for the cleaned answer and its alignment context. The
\* function refine_answer_with_context of lines 49-54 is not in the source
\* tree: final_answer is the value handed to it.
WithAlignment(a, cits, cleaned_answer, alignment_context) ==
    CHOOSE stage \in
        { Built([a EXCEPT !.cleaned_answer = cleaned_answer,
                          !.alignment_context = alignment_context],
                cits, Refined(cleaned_answer, aligned))
          : aligned \in { Apply("AlignOutcome",
                                <<cleaned_answer, alignment_context, a.query>>).text } }
        : TRUE

\* lines 43-59 for the answer and the citations that came back
Answered(a, answer, cits) ==
    CHOOSE stage \in
        { WithAlignment(a, cits, cleaned_answer,
                        IF cits # <<>> THEN cits ELSE a.chunks)
          : cleaned_answer \in { Apply("clean_answer_text", <<answer>>) } }
        : TRUE

Respond ==
    /\ asker.pc = "waiting"
    /\ gateway.pc = "returned"
    /\ asker' = Answered(asker, gateway.answer, gateway.citations)
    /\ UNCHANGED <<cleaner, budgeter, citer, gateway, aligner, matcher,
                   screener, evaluator, searcher, fetcher>>

NextAsk ==
    \/ RejectBlankQuery
    \/ RejectWithoutPassages
    \/ CallGateway
    \/ (NextGateway /\ asker.pc = "waiting")
    \/ PropagateGatewayError
    \/ Respond
SpecAsk == InitAsk /\ [][NextAsk]_vars

(***************************************************************************)
(* Eligibility: check_eligibility                                          *)
(***************************************************************************)
\* _SEX_SYNONYMS
_SEX_SYNONYMS ==
    [t \in { <<"m", "a", "l", "e">>, <<"m", "a", "l", "e", "s">>, <<"m", "a", "n">>,
             <<"m", "e", "n">>, <<"f", "e", "m", "a", "l", "e">>,
             <<"f", "e", "m", "a", "l", "e", "s">>, <<"w", "o", "m", "a", "n">>,
             <<"w", "o", "m", "e", "n">> } |->
        IF t[1] = "m" THEN "male" ELSE "female"]

\* _parse_age_value for None, a bool and an int
_parse_age_value(value) ==
    IF value = None THEN None
    ELSE IF value[1].type = "bool" THEN None
    ELSE Some(value[1].v)

\* _normalize_sex for None and a str
_normalize_sex(value) ==
    LET text == Lower(Strip(value[1]))
    IN  IF value = None THEN None
        ELSE IF text = <<>> THEN None
        ELSE IF text \in DOMAIN _SEX_SYNONYMS THEN Some(_SEX_SYNONYMS[text])
        ELSE None

\* the failure as a bug would have it: the reason is appended and eligible
\* is left as it was
FailKeepingEligible(reason) == [eligible |-> TRUE, reasons |-> <<reason>>]

\* eligible = False; reasons.append(reason), the reason kept as the parts of
\* its f-string
Fail(reason) == [eligible |-> FALSE, reasons |-> <<reason>>]

\* a rule or a test that changes nothing
Pass == [eligible |-> TRUE, reasons |-> <<>>]

\* two tests of one rule, one after the other
Both(first, second) ==
    [eligible |-> first.eligible /\ second.eligible,
     reasons  |-> first.reasons \o second.reasons]

\* the age rule as a bug would have it: an exclusion rule is applied as an
\* inclusion rule
AgeRuleAsInclusion(rule, age) ==
    LET swap  == rule.min # None /\ rule.max # None /\ rule.min[1] > rule.max[1]
        lower == IF swap THEN rule.max ELSE rule.min
        upper == IF swap THEN rule.min ELSE rule.max
    IN  IF age = None
        THEN Fail(<<"Missing age information for ", rule.source, " criterion (",
                    rule.text, ")">>)
        ELSE IF (lower # None /\ age[1] < lower[1]) \/ (upper # None /\ age[1] > upper[1])
        THEN Fail(<<"Age ", age[1], " outside required range for inclusion criterion (",
                    rule.text, ")">>)
        ELSE Pass

\* lines 1616-1658: one age rule
AgeRule(rule, age) ==
    LET swap  == rule.min # None /\ rule.max # None /\ rule.min[1] > rule.max[1]
        lower == IF swap THEN rule.max ELSE rule.min
        upper == IF swap THEN rule.min ELSE rule.max
        a     == age[1]
        match == IF lower # None /\ upper # None THEN lower[1] <= a /\ a <= upper[1]
                 ELSE IF lower # None THEN a >= lower[1]
                 ELSE IF upper # None THEN a <= upper[1]
                 ELSE FALSE
    IN  IF age = None
        THEN Fail(<<"Missing age information for ", rule.source, " criterion (",
                    rule.text, ")">>)
        ELSE IF rule.source = "inclusion"
        THEN IF lower # None /\ upper # None
             THEN IF ~(lower[1] <= a /\ a <= upper[1])
                  THEN Fail(<<"Age ", a, " outside required range for inclusion criterion (",
                              rule.text, ")">>)
                  ELSE Pass
             ELSE Both(IF lower # None /\ a < lower[1]
                       THEN Fail(<<"Age ", a, " below minimum for inclusion criterion (",
                                   rule.text, ")">>)
                       ELSE Pass,
                       IF upper # None /\ a > upper[1]
                       THEN Fail(<<"Age ", a, " above maximum for inclusion criterion (",
                                   rule.text, ")">>)
                       ELSE Pass)
        ELSE IF match
             THEN Fail(<<"Age ", a, " triggers exclusion criterion (", rule.text, ")">>)
             ELSE Pass

\* lines 1660-1685: one sex rule
SexRule(rule, sex, sex_label) ==
    IF sex = None
    THEN Fail(<<"Missing or unsupported sex value for ", rule.source, " criterion (",
                rule.text, ")">>)
    ELSE IF rule.source = "inclusion"
    THEN IF sex[1] \notin rule.allowed
         THEN Fail(<<"Sex ", sex_label, " not permitted by inclusion criterion (",
                     rule.text, "); allowed: ", rule.allowed>>)
         ELSE Pass
    ELSE IF sex[1] \in rule.allowed
         THEN Fail(<<"Sex ", sex_label, " triggers exclusion criterion (", rule.text, ")">>)
         ELSE Pass

\* check_eligibility for the rules that _extract_rules returned: the age
\* rules in their order, then the sex rules
check_eligibility(rules, patient_data) ==
    LET age       == _parse_age_value(patient_data.age)
        sex_value == patient_data.sex
        sex_display == IF sex_value # None THEN Strip(sex_value[1])
                       ELSE <<"u", "n", "s", "p", "e", "c", "i", "f", "i", "e", "d">>
        sex       == _normalize_sex(sex_value)
        sex_label == IF sex_display # <<>> THEN sex_display
                     ELSE <<"u", "n", "s", "p", "e", "c", "i", "f", "i", "e", "d">>
        outcomes  == [k \in 1..Len(rules.age) |-> AgeRule(rules.age[k], age)]
                         \o [k \in 1..Len(rules.sex) |->
                                SexRule(rules.sex[k], sex, sex_label)]
    IN  [eligible |-> \A k \in 1..Len(outcomes) : outcomes[k].eligible,
         reasons  |-> Flatten([k \in 1..Len(outcomes) |-> outcomes[k].reasons])]

\* the rules _extract_rules returns: the inclusion rules before the exclusion
\* rules, a bound on at least one side of an age rule, one allowed sex
AgeBounds == {None, Some(18), Some(65)}
AgeRules ==
    { [min |-> lo, max |-> hi, text |-> "age", source |-> src] :
          lo \in AgeBounds, hi \in AgeBounds, src \in {"inclusion", "exclusion"} }
    \ { [min |-> None, max |-> None, text |-> "age", source |-> src] :
          src \in {"inclusion", "exclusion"} }
SexRules ==
    { [allowed |-> {a}, text |-> "sex", source |-> src] :
          a \in {"male", "female"}, src \in {"inclusion", "exclusion"} }
InSectionOrder(rs) ==
    \A j, k \in 1..Len(rs) :
        j < k => ~(rs[j].source = "exclusion" /\ rs[k].source = "inclusion")
MaxAgeRules == 2
MaxSexRules == 1
PatientAges ==
    {None, Some([type |-> "bool", v |-> 1])}
        \cup {Some([type |-> "int", v |-> n]) : n \in {17, 18, 40, 66}}
PatientSexes ==
    {None, Some(<<>>), Some(<<"m", "a", "l", "e">>),
     Some(<<" ", "W", "o", "m", "e", "n">>), Some(<<"x">>)}

InitScreen ==
    /\ screener \in [pc : {"ready"},
                     rules : [age : {rs \in SeqsUpTo(AgeRules, MaxAgeRules) :
                                        InSectionOrder(rs)},
                              sex : {rs \in SeqsUpTo(SexRules, MaxSexRules) :
                                        InSectionOrder(rs)}],
                     patient : [age : PatientAges, sex : PatientSexes],
                     eligible : {TRUE}, reasons : {<<>>}]
    /\ cleaner = Idle /\ budgeter = Idle /\ citer = Idle /\ gateway = Idle
    /\ aligner = Idle /\ matcher = Idle /\ asker = Idle
    /\ evaluator = Idle /\ searcher = Idle /\ fetcher = Idle

\* the request with the dict that check_eligibility returned
Screened(c, result) ==
    [c EXCEPT !.pc = "done", !.eligible = result.eligible, !.reasons = result.reasons]

CheckEligibility ==
    /\ screener.pc = "ready"
    /\ screener' = Screened(screener,
                       check_eligibility(screener.rules, screener.patient))
    /\ UNCHANGED <<cleaner, budgeter, citer, gateway, aligner, matcher, asker,
                   evaluator, searcher, fetcher>>

NextScreen == CheckEligibility
SpecScreen == InitScreen /\ [][NextScreen]_vars

(***************************************************************************)
(* The evaluation loop: src/eval/eval.py                                   *)
(***************************************************************************)
MAX_REQUEST_ATTEMPTS == 3

\* normalize_answer for None and a str
normalize_answer(text) ==
    IF text = None THEN <<>> ELSE CollapseSpaces(Lower(Strip(text[1])))

answer_exact_match(prediction, gold_answers) ==
    LET normalized_prediction == normalize_answer(prediction)
    IN  IF gold_answers = <<>> THEN FALSE
        ELSE IF normalized_prediction = <<>> THEN FALSE
        ELSE \E k \in 1..Len(gold_answers) :
                 normalized_prediction = normalize_answer(Some(gold_answers[k]))

citations_match(citations, expected_sections, expected_nct_id) ==
    LET sections_seen == { citations[k].section : k \in 1..Len(citations) } \ {""}
    IN  IF expected_sections = <<>> THEN TRUE
        ELSE IF citations = <<>> THEN FALSE
        ELSE IF \E k \in 1..Len(citations) :
                    expected_nct_id # "" /\ citations[k].nct_id # expected_nct_id
        THEN FALSE
        ELSE \A j \in 1..Len(expected_sections) : expected_sections[j] \in sections_seen

\* the fallback test as a bug would have it: no answer is a fallback answer
NeverFallback(answer) == FALSE

\* answer.startswith(("[FALLBACK]", "[DEMO]"))
IsFallbackAnswer(answer) ==
    \/ StartsAt(answer, 1, <<"[", "F", "A", "L", "L", "B", "A", "C", "K", "]">>)
    \/ StartsAt(answer, 1, <<"[", "D", "E", "M", "O", "]">>)

\* what client.post does: it raises, or it returns a response with a status
\* code, a text and a body that is JSON (json = Some(data)) or not (None)
EvalAnswers ==
    { <<"[", "F", "A", "L", "L", "B", "A", "C", "K", "]", " ", "a">>,
      <<"[", "D", "E", "M", "O", "]">>,
      <<"A", " ", " ", "b">>,
      <<"a", "[", "D", "E", "M", "O", "]">> }
EvalCitations == { <<>>, <<[section |-> "s", nct_id |-> "N"]>> }
EvalResponses ==
    { [raises |-> TRUE, status_code |-> 0, text |-> "exc", json |-> None] }
        \cup { [raises |-> FALSE, status_code |-> c, text |-> "body", json |-> None] :
                   c \in {429, 500, 200} }
        \cup { [raises |-> FALSE, status_code |-> 200, text |-> "body",
                json |-> Some([answer |-> a, citations |-> <<>>])] :
                   a \in EvalAnswers }
        \cup { [raises |-> FALSE, status_code |-> 200, text |-> "body",
                json |-> Some([answer |-> <<"A", " ", " ", "b">>, citations |-> cs])] :
                   cs \in EvalCitations }
EvalExamples ==
    { [query |-> "q", nct_id |-> "N", answers |-> <<<<"a", " ", "b">>>>,
       sections |-> ss] : ss \in { <<>>, <<"s">> } }
MaxExamples == 2

\* the locals of evaluate_examples at the start of an example
StartExample(e) ==
    [e EXCEPT !.pc = IF e.index <= Len(e.examples) THEN "looping" ELSE "returned",
              !.attempt = 0, !.response = None, !.data = None,
              !.error_message = None]

InitEval ==
    /\ evaluator \in { StartExample([pc |-> "looping", examples |-> xs, index |-> 1,
                                    attempt |-> 0, response |-> None, data |-> None,
                                    error_message |-> None, records |-> <<>>,
                                    requests |-> [k \in 1..Len(xs) |-> <<>>]]) :
                           xs \in SeqsUpTo(EvalExamples, MaxExamples) \ {<<>>} }
    /\ cleaner = Idle /\ budgeter = Idle /\ citer = Idle /\ gateway = Idle
    /\ aligner = Idle /\ matcher = Idle /\ asker = Idle
    /\ screener = Idle /\ searcher = Idle /\ fetcher = Idle

\* the end of one pass through the while loop: continue goes back to the
\* loop test, break leaves the loop
Continue(e) ==
    [e EXCEPT !.pc = IF e.attempt < MAX_REQUEST_ATTEMPTS THEN "looping" ELSE "recording"]
Break(e) == [e EXCEPT !.pc = "recording"]

\* lines 190-229: one pass through the while loop with the outcome r of
\* client.post; requests keeps what the client was asked for each example
Attempted(e, r) ==
    LET a == [e EXCEPT !.attempt = e.attempt + 1,
                       !.requests[e.index] = Append(e.requests[e.index], r)]
        answer == r.json[1].answer
    IN  IF r.raises
        THEN Break([a EXCEPT !.error_message = Some(<<r.text>>), !.response = None])
        ELSE LET b == [a EXCEPT !.response = Some(r)]
             IN  IF r.status_code = 429 /\ b.attempt < MAX_REQUEST_ATTEMPTS
                 THEN Continue(b)
                 ELSE IF r.status_code # 200
                 THEN Break([b EXCEPT !.error_message = Some(<<r.text>>)])
                 ELSE IF r.json = None
                 THEN Break([b EXCEPT !.error_message = Some(<<"ValueError">>),
                                      !.data = None])
                 ELSE IF IsFallbackAnswer(answer)
                 THEN LET c == [b EXCEPT !.error_message =
                                             Some(<<"Fallback answer received: ", answer>>),
                                         !.data = None]
                      IN  IF c.attempt < MAX_REQUEST_ATTEMPTS THEN Continue(c)
                          ELSE Break(c)
                 ELSE Break([b EXCEPT !.error_message = None, !.data = r.json])

\* lines 231-299: the record of the example; error = None stands for a record
\* without the key "error"
RecordOf(e) ==
    LET example == e.examples[e.index]
        base == [query |-> example.query, nct_id |-> example.nct_id,
                 gold_answers |-> example.answers,
                 expected_sections |-> example.sections]
        failed == [answer |-> None, citations |-> <<>>,
                   answer_exact_match |-> FALSE, citation_match |-> FALSE]
    IN  IF e.response = None
        THEN base @@ failed @@ [error |-> e.error_message, status_code |-> None]
        ELSE IF e.response[1].status_code # 200 \/ e.data = None
        THEN base @@ failed @@
                 [error |-> IF e.error_message # None THEN e.error_message
                            ELSE Some(<<e.response[1].text>>),
                  status_code |-> Some(e.response[1].status_code)]
        ELSE base @@
                 [answer |-> Some(e.data[1].answer),
                  citations |-> e.data[1].citations,
                  answer_exact_match |->
                      answer_exact_match(Some(e.data[1].answer), example.answers),
                  citation_match |->
                      citations_match(e.data[1].citations, example.sections,
                                      example.nct_id),
                  error |-> None,
                  status_code |-> Some(e.response[1].status_code)]

Post ==
    /\ evaluator.pc = "looping"
    /\ \E r \in EvalResponses : evaluator' = Attempted(evaluator, r)
    /\ UNCHANGED <<cleaner, budgeter, citer, gateway, aligner, matcher, asker,
                   screener, searcher, fetcher>>

\* records.append(record) and the next example
AppendRecord ==
    /\ evaluator.pc = "recording"
    /\ evaluator' = StartExample([evaluator EXCEPT
                                      !.records = Append(@, RecordOf(evaluator)),
                                      !.index = @ + 1])
    /\ UNCHANGED <<cleaner, budgeter, citer, gateway, aligner, matcher, asker,
                   screener, searcher, fetcher>>

NextEval == Post \/ AppendRecord
SpecEval == InitEval /\ [][NextEval]_vars

(***************************************************************************)
(* Retrieval: src/app/retrieval/search_client.py                           *)
(***************************************************************************)
\* trial_store.normalize_section_entry for a str section and a text that is
\* None or a str
normalize_section_entry(section, text) ==
    IF section = <<>> THEN None
    ELSE IF text = None THEN None
    ELSE IF text[1] = <<>> THEN None
    ELSE Some([section |-> section, text |-> text[1]])

_tokenize(text) == IF text = <<>> THEN <<>> ELSE FindAllKeywords(Lower(text), 1)

_score_chunk(query_tokens, chunk) ==
    LET combined == IF chunk.section # <<>> /\ chunk.text # <<>>
                    THEN chunk.section \o <<" ">> \o chunk.text
                    ELSE chunk.section \o chunk.text
        tokens == _tokenize(combined)
        RECURSIVE Sum(_)
        Sum(i) == IF i > Len(query_tokens) THEN 0
                  ELSE Count(tokens, query_tokens[i]) + Sum(i + 1)
    IN  IF query_tokens = <<>> THEN 0
        ELSE IF tokens = <<>> THEN 0
        ELSE Sum(1)

\* _build_query_filter: the filter is kept as the nct_id it matches
_build_query_filter(nct_id) == IF nct_id = <<>> THEN None ELSE Some(nct_id)

_payload_matches_nct_id(payload, nct_id) ==
    IF nct_id = <<>> THEN TRUE
    ELSE IF payload = None THEN FALSE
    ELSE payload[1].nct_id = nct_id

\* the client-side filter as a bug would have it: every point is kept
AllPoints(points, nct_id) == points

_filter_points_by_nct_id(points, nct_id) ==
    IF nct_id = <<>> THEN points
    ELSE SelectSeq(points, LAMBDA point : _payload_matches_nct_id(point.payload, nct_id))

\* _is_payload_index_error: "payload index" in the lowered content and str(exc)
_is_payload_index_error(exc) ==
    LET combined == IF exc.content # <<>> THEN exc.content \o <<" ">> \o exc.str
                    ELSE exc.str
    IN  Contains(Lower(combined),
                 <<"p", "a", "y", "l", "o", "a", "d", " ", "i", "n", "d", "e", "x">>)

\* isinstance(exc, classes) for the exception classes of qdrant_client, of
\* which UnexpectedResponse and ResponseHandlingException derive from ApiException
IsInstance(exc, classes) ==
    \/ exc.type \in classes
    \/ exc.type \in {"UnexpectedResponse", "ResponseHandlingException"}
           /\ "ApiException" \in classes
_QDRANT_FILTER_EXCEPTIONS == {"UnexpectedResponse", "ResponseHandlingException"}
_QDRANT_SEARCH_EXCEPTIONS == {"ApiException", "ResponseHandlingException"}

\* the non-empty test as a bug would have it: the index never counts as loaded
IndexNeverLoaded(index) == FALSE

\* if _FAKE_INDEX:
IndexLoaded(index) == index # <<>>

\* lines 230-250: the chunks of the dataset lines that are kept
RECURSIVE ChunksOfLines(_)
ChunksOfLines(lines) ==
    IF lines = <<>> THEN <<>>
    ELSE LET payload    == Head(lines)
             normalized == normalize_section_entry(payload.section, payload.text)
         IN  IF ~payload.json THEN ChunksOfLines(Tail(lines))
             ELSE IF payload.nct_id = None THEN ChunksOfLines(Tail(lines))
             ELSE IF normalized = None THEN ChunksOfLines(Tail(lines))
             ELSE <<[nct_id |-> payload.nct_id[1], section |-> normalized[1].section,
                     text |-> normalized[1].text]>> \o ChunksOfLines(Tail(lines))

\* _ensure_fake_index_loaded(force=force) when n lines can be read before an
\* OSError or the end of the file; reads keeps the reads of the file since
\* the last clear_fallback_index
_ensure_fake_index_loaded(s, force, n) ==
    IF s.client /\ ~force THEN s
    ELSE IF IndexLoaded(s.index) THEN [s EXCEPT !.initialized = TRUE]
    ELSE IF s.initialized /\ ~force THEN s
    ELSE IF s.file = None THEN [s EXCEPT !.initialized = TRUE]
    ELSE [s EXCEPT !.initialized = TRUE,
                   !.index = @ \o ChunksOfLines(SubSeq(s.file[1], 1, Min(n, Len(s.file[1])))),
                   !.reads = Append(@, [force |-> force, client |-> s.client,
                                        before |-> Len(s.index)])]

\* lines 371-386: the local candidates and their ranking
LocalCandidates(index, nct_id) ==
    SelectSeq(index, LAMBDA chunk : nct_id = <<>> \/ chunk.nct_id = nct_id)

RankedCandidates(candidates, query, k) ==
    LET query_tokens == _tokenize(query)
        n      == Len(candidates)
        score  == [idx \in 1..n |-> _score_chunk(query_tokens, candidates[idx])]
        before(a, b) == score[a] > score[b] \/ (score[a] = score[b] /\ a < b)
        rank   == [idx \in 1..n |-> Cardinality({j \in 1..n : before(j, idx)})]
        sorted == [r \in 1..n |-> candidates[CHOOSE idx \in 1..n : rank[idx] = r - 1]]
    IN  IF query_tokens = <<>> THEN SubSeq(candidates, 1, Min(k, n))
        ELSE SubSeq(sorted, 1, Min(k, n))

\* _collect_criteria for sections given as (section, text) pairs
_collect_criteria(sections) ==
    LET kept(prefix) ==
            SelectSeq(sections,
                      LAMBDA e : /\ normalize_section_entry(e.section, e.text) # None
                                 /\ StartsAt(Lower(e.section), 1, prefix))
        inclusion == kept(<<"e", "l", "i", "g", "i", "b", "i", "l", "i", "t", "y", ".",
                            "i", "n", "c", "l", "u", "s", "i", "o", "n">>)
        exclusion == kept(<<"e", "l", "i", "g", "i", "b", "i", "l", "i", "t", "y", ".",
                            "e", "x", "c", "l", "u", "s", "i", "o", "n">>)
    IN  IF inclusion = <<>> /\ exclusion = <<>> THEN None
        ELSE Some([inclusion |-> [k \in 1..Len(inclusion) |-> inclusion[k].text[1]],
                   exclusion |-> [k \in 1..Len(exclusion) |-> exclusion[k].text[1]]])

\* the data of the retrieval model: the trial asked for and another one in the
\* dataset and in Qdrant, a dataset file that is missing
\* or has up to MaxDatasetLines lines, and what the Qdrant client can answer
Inclusion ==
    <<"E", "l", "i", "g", "i", "b", "i", "l", "i", "t", "y", ".",
      "i", "n", "c", "l", "u", "s", "i", "o", "n">>
NctIds == { <<"N", "1">> }
DatasetLines ==
    { [json |-> TRUE, nct_id |-> Some(<<"N", "1">>), section |-> Inclusion,
       text |-> Some(<<"a", " ", "b">>)],
      [json |-> TRUE, nct_id |-> Some(<<"N", "2">>), section |-> <<"s">>,
       text |-> Some(<<"b">>)],
      [json |-> TRUE, nct_id |-> Some(<<"N", "1">>), section |-> <<"s">>,
       text |-> None] }
MaxDatasetLines == 2
SearchQueries == { <<>>, <<"b">> }
Point(nct_id) ==
    [payload |-> Some([nct_id |-> nct_id, section |-> Inclusion, text |-> <<"a">>])]
PointLists ==
    { <<>>, <<Point(<<"N", "1">>)>>, <<Point(<<"N", "2">>), Point(<<"N", "1">>)>>,
      <<[payload |-> None], Point(<<"N", "2">>)>> }
ClientErrors ==
    { [type |-> "UnexpectedResponse", str |-> <<"4", "0", "0">>,
       content |-> <<"P", "a", "y", "l", "o", "a", "d", " ", "i", "n", "d", "e", "x">>],
      [type |-> "UnexpectedResponse", str |-> <<"5", "0", "0">>, content |-> <<"b">>],
      [type |-> "ResponseHandlingException", content |-> <<>>,
       str |-> <<"p", "a", "y", "l", "o", "a", "d", " ", "i", "n", "d", "e", "x">>],
      [type |-> "ApiException", str |-> <<"b">>, content |-> <<>>],
      [type |-> "TypeError", str |-> <<"b">>, content |-> <<>>],
      [type |-> "RuntimeError", str |-> <<"b">>, content |-> <<>>] }
ClientOutcomes ==
    { [raises |-> FALSE, points |-> ps, exc |-> None] : ps \in PointLists }
        \cup { [raises |-> TRUE, points |-> <<>>, exc |-> Some(e)] : e \in ClientErrors }
StoredSections ==
    { Some(<<[section |-> Inclusion, text |-> Some(<<"c">>)]>>),
      Some(<<[section |-> <<"s">>, text |-> Some(<<"c">>)]>>) }
ScrolledPoints == { <<>>, <<Point(<<"N", "1">>)>> }
MaxSearchCalls == 3

\* the module after import and the locals of the call in progress: requests
\* and responses keep what the Qdrant client was asked and what it answered
\* during the last retrieve_chunks
NoCall ==
    [op |-> "none", query |-> <<>>, nct_id |-> <<>>, k |-> 0, stage |-> "none",
     requests |-> <<>>, responses |-> <<>>, local |-> <<>>,
     result |-> None, raised |-> None]

InitSearch ==
    /\ searcher \in { [pc |-> "ready", client |-> c[1], collection |-> c[2],
                       text_search |-> c[3], file |-> f, index |-> <<>>,
                       initialized |-> FALSE, reads |-> <<>>, calls |-> 0,
                       call |-> NoCall] :
                          c \in { <<FALSE, FALSE, FALSE>>, <<TRUE, FALSE, FALSE>>,
                                  <<TRUE, TRUE, FALSE>>, <<TRUE, TRUE, TRUE>> },
                          f \in {None} \cup { Some(ls) :
                                     ls \in SeqsUpTo(DatasetLines, MaxDatasetLines) } }
    /\ cleaner = Idle /\ budgeter = Idle /\ citer = Idle /\ gateway = Idle
    /\ aligner = Idle /\ matcher = Idle /\ asker = Idle
    /\ screener = Idle /\ evaluator = Idle /\ fetcher = Idle

\* a request to the client: the callable, the keyword that carries the query
\* and the query_filter
Request(callable, key, nct_id) ==
    [callable |-> callable, key |-> key, query_filter |-> _build_query_filter(nct_id)]

\* lines 393-400: the dicts built from the points; a point without payload
\* raises AttributeError
Finished(s, points) ==
    IF \E i \in 1..Len(points) : points[i].payload = None
    THEN [s EXCEPT !.pc = "ready", !.call.raised = Some("AttributeError")]
    ELSE [s EXCEPT !.pc = "ready",
                   !.call.result = Some([i \in 1..Len(points) |-> points[i].payload[1]])]

\* retrieve_chunks up to its first request to the client
Retrieving(s, query, nct_id, k, n) ==
    LET loaded == _ensure_fake_index_loaded(s, s.client, n)
        candidates == LocalCandidates(loaded.index, nct_id)
        called == [loaded EXCEPT !.calls = @ + 1,
                                 !.call = [NoCall EXCEPT !.op = "retrieve_chunks",
                                                         !.query = query,
                                                         !.nct_id = nct_id, !.k = k,
                                                         !.local = candidates]]
    IN  IF candidates # <<>>
        THEN [called EXCEPT !.call.result = Some(RankedCandidates(candidates, query, k))]
        ELSE IF ~s.client \/ ~s.collection
        THEN [called EXCEPT !.call.result = Some(<<>>)]
        ELSE [called EXCEPT !.pc = "searching", !.call.stage = "search",
                            !.call.requests = <<Request("search", "query_text", nct_id)>>]

RetrieveChunks ==
    /\ searcher.pc = "ready" /\ searcher.calls < MaxSearchCalls
    /\ \E query \in SearchQueries, nct_id \in NctIds \cup {<<>>},
          n \in 0..MaxDatasetLines :
           searcher' = Retrieving(searcher, query, nct_id, Len(query) + 1, n)
    /\ UNCHANGED <<cleaner, budgeter, citer, gateway, aligner, matcher, asker,
                   screener, evaluator, fetcher>>

\* an exception that leaves _execute_qdrant_search, handled by the except
\* clauses of _search_qdrant_with_text (lines 187-204)
Propagated(s, exc) ==
    IF s.call.stage \in {"search", "search_retry"}
    THEN IF exc.type = "TypeError"
         THEN IF ~s.text_search THEN Finished(s, <<>>)
              ELSE [s EXCEPT !.call.stage = "text_search",
                             !.call.requests =
                                 Append(@, Request("text_search", "query", s.call.nct_id))]
         ELSE IF IsInstance(exc, _QDRANT_SEARCH_EXCEPTIONS) THEN Finished(s, <<>>)
         ELSE [s EXCEPT !.pc = "ready", !.call.raised = Some(exc.type)]
    ELSE IF IsInstance(exc, _QDRANT_SEARCH_EXCEPTIONS) THEN Finished(s, <<>>)
         ELSE [s EXCEPT !.pc = "ready", !.call.raised = Some(exc.type)]

\* _execute_qdrant_search (lines 124-141) on the outcome o of the call of
\* search_callable that is in progress
Executed(s, o) ==
    LET request == s.call.requests[Len(s.call.requests)]
        a == [s EXCEPT !.call.responses = Append(@, o)]
    IN  IF s.call.stage \in {"search", "text_search"}
        THEN IF ~o.raises THEN Finished(a, o.points)
             ELSE IF /\ IsInstance(o.exc[1], _QDRANT_FILTER_EXCEPTIONS)
                     /\ request.query_filter # None
                     /\ _is_payload_index_error(o.exc[1])
             THEN [a EXCEPT !.call.stage = IF s.call.stage = "search" THEN "search_retry"
                                           ELSE "text_search_retry",
                            !.call.requests =
                                Append(@, [request EXCEPT !.query_filter = None])]
             ELSE Propagated(a, o.exc[1])
        ELSE IF ~o.raises
             THEN Finished(a, _filter_points_by_nct_id(o.points, s.call.nct_id))
             ELSE Propagated(a, o.exc[1])

ClientAnswers ==
    /\ searcher.pc = "searching"
    /\ \E o \in ClientOutcomes : searcher' = Executed(searcher, o)
    /\ UNCHANGED <<cleaner, budgeter, citer, gateway, aligner, matcher, asker,
                   screener, evaluator, fetcher>>

\* retrieve_criteria_for_trial when trial_store holds the sections stored,
\* n1 and n2 lines can be read by the two loads and the scroll of
\* _fetch_sections_from_remote returns points
SectionsOf(index, nct_id) ==
    LET chunks == SelectSeq(index, LAMBDA chunk : chunk.nct_id = nct_id)
    IN  [i \in 1..Len(chunks) |->
            [section |-> chunks[i].section, text |-> Some(chunks[i].text)]]

RemoteSections(points, nct_id) ==
    LET kept == SelectSeq(points,
                    LAMBDA point : /\ point.payload # None
                                   /\ point.payload[1].nct_id = nct_id
                                   /\ normalize_section_entry(point.payload[1].section,
                                          Some(point.payload[1].text)) # None)
    IN  [i \in 1..Len(kept) |->
            [section |-> kept[i].payload[1].section, text |-> Some(kept[i].payload[1].text)]]

RetrievedCriteria(s, nct_id, stored, n1, n2, points) ==
    LET called  == [s EXCEPT !.calls = @ + 1,
                             !.call = [NoCall EXCEPT !.op = "retrieve_criteria_for_trial",
                                                     !.nct_id = nct_id]]
        first   == _ensure_fake_index_loaded(called, FALSE, n1)
        second  == IF SectionsOf(first.index, nct_id) = <<>>
                   THEN _ensure_fake_index_loaded(first, TRUE, n2) ELSE first
        sections == SectionsOf(second.index, nct_id)
        remote  == IF s.client /\ s.collection THEN RemoteSections(points, nct_id)
                   ELSE <<>>
    IN  IF stored # None /\ _collect_criteria(stored[1]) # None
        THEN [called EXCEPT !.call.result = Some(_collect_criteria(stored[1]))]
        ELSE IF sections = <<>>
        THEN [second EXCEPT !.call.result =
                  Some(IF remote # <<>> THEN _collect_criteria(remote) ELSE None)]
        ELSE [second EXCEPT !.call.result = Some(_collect_criteria(sections))]

RetrieveCriteriaForTrial ==
    /\ searcher.pc = "ready" /\ searcher.calls < MaxSearchCalls
    /\ \E nct_id \in NctIds, stored \in StoredSections,
          n \in {0, MaxDatasetLines}, points \in ScrolledPoints :
           searcher' = RetrievedCriteria(searcher, nct_id, stored, n, n, points)
    /\ UNCHANGED <<cleaner, budgeter, citer, gateway, aligner, matcher, asker,
                   screener, evaluator, fetcher>>

\* clear_fallback_index
ClearFallbackIndex ==
    /\ searcher.pc = "ready" /\ searcher.calls < MaxSearchCalls
    /\ searcher' = [searcher EXCEPT !.index = <<>>, !.initialized = FALSE,
                                    !.reads = <<>>, !.calls = @ + 1,
                                    !.call = [NoCall EXCEPT !.op = "clear_fallback_index"]]
    /\ UNCHANGED <<cleaner, budgeter, citer, gateway, aligner, matcher, asker,
                   screener, evaluator, fetcher>>

NextSearch ==
    RetrieveChunks \/ ClientAnswers \/ RetrieveCriteriaForTrial \/ ClearFallbackIndex
SpecSearch == InitSearch /\ [][NextSearch]_vars

(***************************************************************************)
(* The ClinicalTrials.gov clients: src/pipeline/ctgov_api.py                *)
(***************************************************************************)
\* a token that is None or "" ends the pagination (if not next_token)
Truthy(token) == token # None /\ token[1] # ""

\* the test of max_studies as a bug would have it: the limit is never reached
NeverReached(collected, max_studies) == FALSE

\* max_studies is not None and len(collected) >= max_studies
ReachedMax(collected, max_studies) ==
    max_studies # None /\ Len(collected) >= max_studies[1]

\* collected[:max_studies], the slice of Python with a negative end included
SliceTo(collected, m) ==
    IF m >= 0 THEN SubSeq(collected, 1, Min(m, Len(collected)))
    ELSE SubSeq(collected, 1, Max(Len(collected) + m, 0))

\* base_params of fetch_studies for parameters that _flatten_params has
\* flattened to pairs
BaseParams(flattened, page_size) ==
    LET keys(ps) == { ps[k][1] : k \in 1..Len(ps) }
        sized == IF page_size # None /\ "pageSize" \notin keys(flattened)
                 THEN Append(flattened, <<"pageSize", page_size[1]>>)
                 ELSE flattened
    IN  IF "format" \notin keys(sized) THEN Append(sized, <<"format", "json">>)
        ELSE sized

\* what the API answers to the request number j: an HTTP error status, a
\* network error, a body that is not JSON, a body without a "studies" list, or
\* a page with up to MaxPageStudies studies and a nextPageToken that is
\* absent, empty or a token; the requests are capped at MaxRequests by the
\* API ending the pagination there
MaxPageStudies == 2
MaxRequests == 3
PageTokens == { None, Some(""), Some("t1"), Some("t2") }
ApiAnswers(j) ==
    { [kind |-> kind, studies |-> <<>>, nextPageToken |-> None] :
          kind \in {"http_error", "network_error", "invalid_json", "no_studies"} }
        \cup { [kind |-> "page",
                studies |-> [i \in 1..n |-> [page |-> j, position |-> i]],
                nextPageToken |-> token] :
                   n \in 0..MaxPageStudies,
                   token \in IF j < MaxRequests THEN PageTokens ELSE { None, Some("") } }
MaxStudies == { None, Some(0 - 1), Some(0), Some(1), Some(3) }

InitFetch ==
    /\ fetcher \in [pc : {"fetching"}, backend : {"httpx", "requests"},
                    base_params : { BaseParams(ps, Some("100")) :
                                        ps \in { <<>>, <<<<"pageSize", "5">>>> } },
                    max_studies : MaxStudies, collected : {<<>>},
                    next_token : {None}, requests : {<<>>}, answers : {<<>>},
                    result : {None}, error : {None}]
    /\ cleaner = Idle /\ budgeter = Idle /\ citer = Idle /\ gateway = Idle
    /\ aligner = Idle /\ matcher = Idle /\ asker = Idle
    /\ screener = Idle /\ evaluator = Idle /\ searcher = Idle

\* raise CtGovApiError(message)
Failed(f, message) == [f EXCEPT !.pc = "raised", !.error = Some(message)]

\* one pass through the while loop of fetch_studies (lines 143-185 of
\* CtGovClient and 264-314 of CtGovRequestsClient, which differ in the URL and
\* in the exception classes they catch): the request with the pageToken and
\* what follows its answer
Fetched(f, answer) ==
    LET query == IF Truthy(f.next_token)
                 THEN Append(f.base_params, <<"pageToken", f.next_token[1]>>)
                 ELSE f.base_params
        asked == [f EXCEPT !.requests = Append(@, query), !.answers = Append(@, answer)]
        collected == f.collected \o answer.studies
        extended == [asked EXCEPT !.collected = collected]
    IN  IF answer.kind = "http_error"
        THEN Failed(asked, "ClinicalTrials.gov API returned HTTP")
        ELSE IF answer.kind = "network_error"
        THEN Failed(asked, "Failed to communicate with ClinicalTrials.gov API")
        ELSE IF answer.kind = "invalid_json"
        THEN Failed(asked, "ClinicalTrials.gov API returned invalid JSON")
        ELSE IF answer.kind = "no_studies"
        THEN Failed(asked, "ClinicalTrials.gov API response missing 'studies' list")
        ELSE IF ReachedMax(collected, f.max_studies)
        THEN [extended EXCEPT !.pc = "returned",
                              !.result = Some(SliceTo(collected, f.max_studies[1]))]
        ELSE IF ~Truthy(answer.nextPageToken)
        THEN [extended EXCEPT !.pc = "returned", !.next_token = answer.nextPageToken,
                              !.result = Some(collected)]
        ELSE [extended EXCEPT !.next_token = answer.nextPageToken]

GetPage ==
    /\ fetcher.pc = "fetching"
    /\ \E answer \in ApiAnswers(Len(fetcher.requests) + 1) :
           fetcher' = Fetched(fetcher, answer)
    /\ UNCHANGED <<cleaner, budgeter, citer, gateway, aligner, matcher, asker,
                   screener, evaluator, searcher>>

NextFetch == GetPage
SpecFetch == InitFetch /\ [][NextFetch]_vars

(***************************************************************************)
(* Claims                                                                  *)
(***************************************************************************)
\* C2 (as claimed): clean_answer_text is idempotent: cleaning a cleaned answer
\* again returns it unchanged.
C2_CleanIdempotent ==
    cleaner.pc = "recleaned" => cleaner.results[2] = cleaner.results[1]

\* C3: for every chunk list and every max_chars > 0 the context string that
\* _select_chunks_for_context returns is at most max_chars characters long,
\* prefixes, joining newlines and the ellipsis of a truncated line included.
C3_BudgetRespected ==
    (budgeter.pc = "done" /\ budgeter.max_chars > 0)
        => Len(budgeter.context) <= budgeter.max_chars

\* C3 witness: two lines were selected, the second one truncated to an
\* ellipsis, and the budget is used to the last character.
C3_Witness ==
    /\ budgeter.pc = "done"
    /\ Len(budgeter.selected) = 2
    /\ Len(budgeter.context) = budgeter.max_chars
    /\ budgeter.context[Len(budgeter.context)] = "ELLIPSIS"

\* C4: with a non-empty chunk list and a non-empty answer _select_citations
\* returns at least min(3, len(chunks)) chunks.
C4_CitationFloor ==
    (citer.pc = "done" /\ citer.chunks # <<>> /\ citer.answer # <<>>)
        => Len(citer.citations) >= Min(3, Len(citer.chunks))

\* C4 witness: four chunks of which the fourth adds nothing, so exactly the
\* floor of three is returned; and an answer that matches no chunk at all.
C4_Witness ==
    /\ citer.pc = "done"
    /\ Len(citer.chunks) = 4
    /\ citer.answer = <<"d">>
    /\ Len(citer.citations) = 3

\* C5 (as claimed): the citations are a duplicate-free subsequence of the
\* input chunk list, in the input's relative order.
C5_InputOrderSubsequence ==
    citer.pc = "done" =>
        \E pos \in [1..Len(citer.citations) -> 1..Len(citer.chunks)] :
            /\ \A j, k \in 1..Len(citer.citations) : j < k => pos[j] < pos[k]
            /\ \A k \in 1..Len(citer.citations) : citer.chunks[pos[k]] = citer.citations[k]

\* C5 (amended): the citations are distinct positions of the input list, each
\* listed once, in match-rank order: span match first, then more matched
\* fragments, then more token overlap, and input order only among equals.
C5_RankOrderedDistinct ==
    citer.pc = "done" =>
        LET sel     == citer.selected_indices
            cleaned == Apply("clean_answer_text", <<citer.answer>>)
            m(i)    == Apply("CitationMatch", <<cleaned, citer.chunks, i>>)
            span(i) == IF m(i).span_match THEN 1 ELSE 0
            frag(i) == Cardinality(m(i).fragment_matches)
            tok(i)  == m(i).token_overlap
        IN  /\ Len(citer.citations) = Len(sel)
            /\ \A k \in 1..Len(sel) :
                   sel[k] \in 1..Len(citer.chunks) /\ citer.citations[k] = citer.chunks[sel[k]]
            /\ \A j, k \in 1..Len(sel) : j < k =>
                   /\ sel[j] # sel[k]
                   /\ \/ span(sel[j]) > span(sel[k])
                      \/ span(sel[j]) = span(sel[k]) /\ frag(sel[j]) > frag(sel[k])
                      \/ span(sel[j]) = span(sel[k]) /\ frag(sel[j]) = frag(sel[k])
                             /\ tok(sel[j]) > tok(sel[k])
                      \/ span(sel[j]) = span(sel[k]) /\ frag(sel[j]) = frag(sel[k])
                             /\ tok(sel[j]) = tok(sel[k]) /\ sel[j] < sel[k]

\* C5 witness: a later chunk that matches the answer is cited before an
\* earlier one that does not.
C5_Witness ==
    /\ citer.pc = "done"
    /\ Len(citer.selected_indices) >= 2
    /\ citer.selected_indices[1] > citer.selected_indices[2]

\* C8: with a configured provider the gateway calls the provider at most three
\* times; a success returns the model's answer with no further call; each
\* provider-error failure before the third is followed by a sleep of
\* 1 * 2^(attempt-1) seconds (1, then 2) and none follows the third; after
\* the third such failure the fixed fallback sentence is returned, nothing
\* is raised.
C8_BoundedRetriesWithBackoff ==
    ProviderConfigured(gateway.settings) =>
        /\ gateway.calls <= 3
        /\ Len(gateway.sleeps) <= 2
        /\ \A k \in 1..Len(gateway.sleeps) : gateway.sleeps[k] = 2 ^ (k - 1)
        /\ gateway.pc = "attempting" =>
               gateway.calls = gateway.attempt - 1 /\ Len(gateway.sleeps) = gateway.calls
        /\ gateway.outcome = "answer" =>
               /\ gateway.answer \in ModelAnswers
               /\ gateway.calls = Len(gateway.raised) + 1
               /\ Len(gateway.sleeps) = Len(gateway.raised)
        /\ (Len(gateway.raised) = 3
                /\ \A k \in 1..3 : is_provider_error(gateway.raised[k], gateway.provider_errors)) =>
               /\ gateway.pc = "returned"
               /\ gateway.outcome = "fallback"
               /\ gateway.status_code = 0
               /\ gateway.calls = 3
               /\ gateway.sleeps = <<1, 2>>
               /\ gateway.answer =
                      _provider_unavailable_answer(Len(gateway.bounded_chunks))

\* C8 witness: three provider errors in a row ended in the fallback answer
\* after sleeps of 1 and 2 seconds.
C8_Witness ==
    /\ gateway.outcome = "fallback"
    /\ gateway.calls = 3
    /\ gateway.sleeps = <<1, 2>>
    /\ Len(gateway.bounded_chunks) = 2

\* C9 (as claimed): in every configuration of the loaded provider error
\* types, an exception that is an instance of none of the provider's error
\* classes is never retried and never turned into the fallback answer: the
\* attempt that raised it ends the request with HTTP 502.
C9_UnexpectedErrorAlwaysPropagates ==
    \A k \in 1..Len(gateway.raised) :
        "AttributeError" \in gateway.raised[k] =>
            /\ k = Len(gateway.raised)
            /\ gateway.pc = "raised"
            /\ gateway.status_code = 502
            /\ gateway.outcome = "error"

\* C9 (amended): when at least one provider error type was loaded, an
\* exception that is an instance of none of the loaded types is never
\* retried and never turned into the fallback answer: the attempt that
\* raised it ends the request with HTTP 502.  When no type was loaded every
\* exception counts as a provider error and the request never ends in 502.
C9_UnexpectedErrorPropagatesWhenTypesLoaded ==
    /\ gateway.provider_errors # {} =>
           \A k \in 1..Len(gateway.raised) :
               ~_is_provider_error(gateway.raised[k], gateway.provider_errors) =>
                   /\ k = Len(gateway.raised)
                   /\ gateway.calls = k
                   /\ gateway.pc = "raised"
                   /\ gateway.status_code = 502
                   /\ gateway.outcome = "error"
    /\ (gateway.pc # "called" /\ gateway.provider_errors = {}) =>
           gateway.pc # "raised" /\ gateway.status_code = 0

\* C9 witness: with loaded error types, a provider error was retried and the
\* unexpected exception of the second attempt ended the request with 502.
C9_Witness ==
    /\ gateway.provider_errors # {}
    /\ Len(gateway.raised) = 2
    /\ _is_provider_error(gateway.raised[1], gateway.provider_errors)
    /\ gateway.raised[2] = {"AttributeError"}
    /\ gateway.pc = "raised"
    /\ gateway.status_code = 502

\* C10 (as claimed): when the gateway returns the fallback answer or the demo
\* answer, its citations are exactly the first min(3, n) chunks of the
\* context-selected list, in context order.
C10_SentinelCitesFirstThree ==
    gateway.outcome \in {"fallback", "demo"} =>
        gateway.citations =
            SubSeq(gateway.bounded_chunks, 1, Min(3, Len(gateway.bounded_chunks)))

\* the paths of align_answer_to_context that return text taken from a chunk
RealignedPaths ==
    {"label", "candidate", "query_only", "expanded_fragment", "expanded_chunk",
     "clause"}

\* C1 (as claimed): a result produced by the label-query, exact/near,
\* query-only, expansion or clause path is a contiguous substring of the text
\* of some input chunk, but for a stripped leading list numeral and at most
\* one appended trailing punctuation character.
C1_VerbatimSubstring ==
    (aligner.pc = "done" /\ aligner.path \in RealignedPaths) =>
        \E k \in 1..Len(aligner.context_chunks) :
            LET text == aligner.context_chunks[k].text
                n    == Len(aligner.result)
            IN  \/ Contains(text, aligner.result)
                \/ /\ n >= 1
                   /\ aligner.result[n] \in {".", ";", ",", ":", "!", "?"}
                   /\ Contains(text, Upto(aligner.result, n - 1))

\* C6 (as claimed): the aligner returns the answer unchanged when the answer
\* is empty or whitespace-only, the chunk list is empty, or the lower-cased
\* answer starts with [fallback] or [demo].
C6_EarlyReturnUnchanged ==
    (/\ aligner.pc = "done"
     /\ \/ Strip(aligner.answer) = <<>>
        \/ aligner.context_chunks = <<>>
        \/ IsSentinel(Lower(aligner.answer)))
        => aligner.result = aligner.answer

\* the stripped lower-case answer starts with one of the sentinel prefixes
SentinelAnswer ==
    LET lowered == Lower(Strip(aligner.answer))
    IN  \/ Upto(lowered, 10) = <<"[", "f", "a", "l", "l", "b", "a", "c", "k", "]">>
        \/ Upto(lowered, 6) = <<"[", "d", "e", "m", "o", "]">>

\* C6 (amended): without evaluating any chunk the aligner returns the answer
\* itself when the answer is empty or the chunk list is empty, and otherwise
\* the answer stripped of surrounding whitespace when it is whitespace-only
\* or when its stripped lower-case form starts with [fallback] or [demo]; a
\* sentinel answer is never replaced by chunk text.
C6_EarlyReturnStripped ==
    aligner.pc = "done" =>
        /\ (aligner.answer = <<>> \/ aligner.context_chunks = <<>>) =>
               /\ aligner.result = aligner.answer
               /\ aligner.path \in {"no_answer", "no_chunks"}
               /\ aligner.trace = NoTrace
        /\ (/\ aligner.answer # <<>>
            /\ aligner.context_chunks # <<>>
            /\ \/ Strip(aligner.answer) = <<>>
               \/ SentinelAnswer) =>
               /\ aligner.result = Strip(aligner.answer)
               /\ aligner.path \in {"blank_answer", "sentinel"}
               /\ aligner.trace = NoTrace

\* C6 witness: a sentinel answer with trailing whitespace met a chunk that
\* would match it and came back stripped.
C6_Witness ==
    /\ aligner.pc = "done"
    /\ aligner.path = "sentinel"
    /\ aligner.result # aligner.answer
    /\ \E k \in 1..Len(aligner.context_chunks) :
           Contains(Lower(aligner.context_chunks[k].text), <<"b", "e">>)

\* the label-query candidate of the claim: found, not worse than the
\* baseline and, once shrunk, no longer than the reference
LabelQualifies ==
    /\ aligner.trace.label_found # None
    /\ aligner.trace.label_found[1].score # <<>>
    /\ ~TupleGreater(aligner.trace.baseline_score, aligner.trace.label_found[1].score)
    /\ aligner.trace.label_shrunk[1].length <= aligner.trace.reference_length

\* C7 (as claimed): a label-query candidate that is not worse than the
\* baseline and, once shrunk, no longer than the reference is returned in
\* preference to any exact/near candidate; an exact/near candidate that beat
\* the baseline is returned only when no label-query candidate qualifies.
C7_LabelBeforeExact ==
    (aligner.pc = "done" /\ LabelQualifies) =>
        /\ aligner.path = "label"
        /\ aligner.result =
               Apply("_prepare_aligned_text", <<
                   Apply("_restore_fragment_text", <<aligner.trace.label_shrunk[1]>>)>>)

\* C7 (amended): an exact/near candidate that beat the baseline is returned
\* whether or not a label-query candidate exists; the label-query candidate
\* is returned exactly when no candidate beat the baseline and the label
\* candidate, once shrunk, differs from the answer and is not empty and no
\* longer than the reference.  It is not compared with the baseline.
C7_ExactBeforeLabel ==
    (aligner.pc = "done" /\ aligner.trace # NoTrace) =>
        LET stripped_answer == Strip(aligner.answer)
            beaten  == aligner.trace.best_after_loop # stripped_answer
            label   == aligner.trace.label_shrunk
            usable  == /\ label # None
                       /\ label[1].length >= 1
                       /\ label[1].length <= aligner.trace.reference_length
                       /\ label[1].text # stripped_answer
            best_eval == aligner.trace.best_eval_after_loop
        IN  /\ beaten <=> aligner.path = "candidate"
            /\ aligner.path = "candidate" =>
                   aligner.result =
                       IF best_eval # None /\ best_eval[1].source_chunk # <<>>
                       THEN Apply("_prepare_aligned_text", <<Apply("_restore_fragment_text", <<best_eval[1]>>)>>)
                       ELSE Apply("_prepare_aligned_text", <<aligner.trace.best_after_loop>>)
            /\ (~beaten /\ usable) <=> aligner.path = "label"
            /\ aligner.path = "label" =>
                   aligner.result =
                       Apply("_prepare_aligned_text", <<Apply("_restore_fragment_text", <<label[1]>>)>>)

\* C7 witness: a label-query candidate qualified, and another candidate, the
\* exact/near one that beat the baseline, was returned instead of it.
C7_Witness ==
    /\ aligner.pc = "done"
    /\ LabelQualifies
    /\ aligner.path = "candidate"
    /\ aligner.result # aligner.trace.label_shrunk[1].text
    /\ aligner.result # aligner.trace.label_found[1].text

\* ---- the score order and the stop of the context loop ------------------
\* the chunk at rank r of the score order of the request
Ranked(r) == budgeter.chunks[budgeter.order[r]]
\* the whole line the chunk at rank r would be given as line number r
WholeLine(r) == Apply("_format_chunk_prefix", <<Ranked(r), r>>) \o Ranked(r).text
\* the characters left for line number r: the budget less the lines before
\* it and the newline that joins it to them
RoomForLine(r) ==
    budgeter.max_chars - Len(JoinLines(SubSeq(budgeter.formatted_parts, 1, r - 1)))
        - (IF r > 1 THEN 1 ELSE 0)

\* C11: the order of _select_chunks_for_context is by descending numeric
\* score, ties by ascending input index, and every chunk without a numeric
\* score comes after every chunk with one, whatever the score, the chunks
\* without a score in their input order.
C11_ScoredBeforeUnscored ==
    budgeter.pc = "done" =>
        \A r, q \in 1..Len(budgeter.order) :
            r < q =>
                LET a == Ranked(r)
                    b == Ranked(q)
                IN  IF a.score # <<>> /\ b.score # <<>>
                    THEN \/ a.score[1] > b.score[1]
                         \/ a.score[1] = b.score[1] /\ budgeter.order[r] < budgeter.order[q]
                    ELSE IF a.score = <<>>
                    THEN b.score = <<>> /\ budgeter.order[r] < budgeter.order[q]
                    ELSE TRUE

\* C12: the selected chunks are a prefix of the score order; every line but
\* the last is whole; the last line is whole, or it is a shortened line put
\* in the place of a whole line that did not fit, the room exceeding the
\* prefix; and the loop leaves chunks out only after a shortened line or
\* at a line that does not fit with no room beyond its prefix.
C12_PrefixWithOneTruncation ==
    (budgeter.pc = "done" /\ budgeter.chunks # <<>> /\ budgeter.max_chars > 0) =>
        LET n     == Len(budgeter.selected)
            parts == budgeter.formatted_parts
            prefix(r) == Apply("_format_chunk_prefix", <<Ranked(r), r>>)
        IN  /\ n <= Len(budgeter.chunks)
            /\ Len(parts) = n
            /\ \A r \in 1..n : budgeter.selected[r] = Ranked(r)
            /\ \A r \in 1..(n - 1) : parts[r] = WholeLine(r)
            /\ \A r \in 1..n : Len(WholeLine(r)) <= RoomForLine(r) => parts[r] = WholeLine(r)
            /\ n >= 1 =>
                   \/ parts[n] = WholeLine(n)
                   \/ /\ Len(WholeLine(n)) > RoomForLine(n)
                      /\ RoomForLine(n) > Len(prefix(n))
                      /\ Len(parts[n]) > Len(prefix(n))
                      /\ Len(parts[n]) <= RoomForLine(n)
                      /\ Upto(parts[n], Len(prefix(n))) = prefix(n)
            /\ n < Len(budgeter.chunks) =>
                   \/ n >= 1 /\ parts[n] # WholeLine(n)
                   \/ /\ Len(WholeLine(n + 1)) > RoomForLine(n + 1)
                      /\ RoomForLine(n + 1) <= Len(prefix(n + 1))

\* C12 witness: the first line of the score order was shortened and the
\* second chunk, whose whole line would have fitted in the budget by
\* itself, was not considered.
C12_Witness ==
    /\ budgeter.pc = "done"
    /\ Len(budgeter.chunks) = 2
    /\ Len(budgeter.selected) = 1
    /\ budgeter.formatted_parts[1] # WholeLine(1)
    /\ Len(Apply("_format_chunk_prefix", <<Ranked(2), 1>>) \o Ranked(2).text) <= budgeter.max_chars

\* C13 (as claimed): with any max_chars > 0 below the length of the first
\* line of the score order, the context is one line, shortened, ending in
\* the ellipsis, of at most max_chars characters.
C13_OneTruncatedLineForAnyBudget ==
    (/\ budgeter.pc = "done"
     /\ budgeter.chunks # <<>>
     /\ budgeter.max_chars > 0
     /\ budgeter.max_chars < Len(WholeLine(1))) =>
        /\ Len(budgeter.formatted_parts) = 1
        /\ budgeter.context = budgeter.formatted_parts[1]
        /\ budgeter.context # WholeLine(1)
        /\ budgeter.context[Len(budgeter.context)] = "ELLIPSIS"
        /\ Len(budgeter.context) <= budgeter.max_chars

\* C13 (amended): the same with max_chars above the length of the line's
\* prefix; with max_chars up to the prefix length nothing is selected and
\* the context is empty.
C13_OneTruncatedLineBeyondPrefix ==
    (/\ budgeter.pc = "done"
     /\ budgeter.chunks # <<>>
     /\ budgeter.max_chars > 0
     /\ budgeter.max_chars < Len(WholeLine(1))) =>
        LET prefix == Apply("_format_chunk_prefix", <<Ranked(1), 1>>)
        IN  IF budgeter.max_chars > Len(prefix)
            THEN /\ Len(budgeter.formatted_parts) = 1
                 /\ budgeter.context = budgeter.formatted_parts[1]
                 /\ budgeter.context # WholeLine(1)
                 /\ Upto(budgeter.context, Len(prefix)) = prefix
                 /\ budgeter.context[Len(budgeter.context)] = "ELLIPSIS"
                 /\ Len(budgeter.context) <= budgeter.max_chars
            ELSE budgeter.selected = <<>> /\ budgeter.context = <<>>

\* C13 witness: two chunks, a budget between the prefix length and the
\* length of the first line: one shortened line is the context.
C13_Witness ==
    /\ budgeter.pc = "done"
    /\ Len(budgeter.chunks) = 2
    /\ Len(budgeter.formatted_parts) = 1
    /\ budgeter.max_chars < Len(WholeLine(1))
    /\ Len(budgeter.context) = budgeter.max_chars
    /\ budgeter.context[Len(budgeter.context)] = "ELLIPSIS"
    /\ Len(budgeter.context) > Len(Apply("_format_chunk_prefix", <<Ranked(1), 1>>)) + 1

\* ---- the length and the emptiness of a cleaned answer ------------------
\* C14: the cleaned answer is never longer than the raw answer; it is empty
\* only when the raw answer is empty or all whitespace; and when nothing is
\* left after the markers and the boilerplate are stripped, the trimmed
\* original is returned.
C14_NeverLongerNeverEmptied ==
    cleaner.pc = "cleaned" =>
        LET result == cleaner.results[1]
            blank  == \A i \in 1..Len(cleaner.raw) : cleaner.raw[i] \in SpaceSet
        IN  /\ Len(result) <= Len(cleaner.raw)
            /\ result = <<>> <=> blank
            /\ cleaner.stripped = <<>> => result = Strip(cleaner.raw)
            /\ cleaner.stripped # <<>> => result = cleaner.stripped

\* C14 witness: the raw answer is a label and a citation marker between
\* spaces; nothing is left after stripping, and the trimmed original, which
\* is shorter than the raw answer, is returned.
C14_Witness ==
    /\ cleaner.pc = "cleaned"
    /\ cleaner.stripped = <<>>
    /\ cleaner.results[1] # <<>>
    /\ Len(cleaner.results[1]) < Len(cleaner.raw)
    /\ Contains(cleaner.raw, <<"(", "1", ")">>)

\* ---- what the citations beyond the first three add ---------------------
\* the entry of `matches` for the chunk at input index i of the request
CiterMatch(i) ==
    Apply("CitationMatch", <<Apply("clean_answer_text", <<citer.answer>>), citer.chunks, i>>)
\* the chunk at input index i shares a span, a fragment or a token with the
\* answer
CiterSignal(i) ==
    \/ CiterMatch(i).span_match
    \/ CiterMatch(i).fragment_matches # {}
    \/ CiterMatch(i).tokens # {}

\* C15: a chunk selected after max_default chunks adds, to the chunks
\* selected before it, a span match, a matched fragment, a matched answer
\* token, or a section while it has some match with the answer; a chunk that
\* shares neither span nor fragment nor token with the answer is not among
\* the chunks selected beyond max_default.
C15_BeyondDefaultOnlyContributors ==
    (citer.pc = "done" /\ Apply("clean_answer_text", <<citer.answer>>) # <<>>) =>
        LET sel == citer.selected_indices
        IN  \A k \in (MAX_DEFAULT_CITATIONS + 1)..Len(sel) :
                LET entry   == CiterMatch(sel[k])
                    before  == {sel[j] : j \in 1..(k - 1)}
                IN  /\ CiterSignal(sel[k])
                    /\ \/ entry.span_match /\ \A i \in before : ~CiterMatch(i).span_match
                       \/ \E f \in entry.fragment_matches :
                              \A i \in before : f \notin CiterMatch(i).fragment_matches
                       \/ \E t \in entry.tokens :
                              \A i \in before : t \notin CiterMatch(i).tokens
                       \/ /\ entry.section # <<>>
                          /\ \A i \in before : citer.chunks[i].section # entry.section

\* C15 witness: four chunks that all hold the whole answer; the fourth is
\* selected beyond the first three for its section alone.
C15_Witness ==
    /\ citer.pc = "done"
    /\ citer.answer = <<"a">>
    /\ Len(citer.selected_indices) = 4
    /\ \A k \in 1..4 : CiterMatch(k).span_match
    /\ \A k \in 1..3 : citer.chunks[citer.selected_indices[k]].section = <<"S">>
    /\ citer.chunks[citer.selected_indices[4]].section = <<"T">>

\* C16: what any input chunk shares with the cleaned answer is shared by a
\* selected chunk: every matched answer token, every matched fragment, the
\* span match, and the section of every chunk that has some match; the
\* selection is not held to the first three of the rank order.
C16_CoverageComplete ==
    (citer.pc = "done" /\ Apply("clean_answer_text", <<citer.answer>>) # <<>>) =>
        LET sel    == citer.selected_indices
            chosen == {sel[k] : k \in 1..Len(sel)}
        IN  \A i \in 1..Len(citer.chunks) :
                /\ \A t \in CiterMatch(i).tokens : \E j \in chosen : t \in CiterMatch(j).tokens
                /\ \A f \in CiterMatch(i).fragment_matches :
                       \E j \in chosen : f \in CiterMatch(j).fragment_matches
                /\ CiterMatch(i).span_match => \E j \in chosen : CiterMatch(j).span_match
                /\ (CiterSignal(i) /\ citer.chunks[i].section # <<>>) =>
                       \E j \in chosen : citer.chunks[j].section = citer.chunks[i].section

\* C16 witness: the answer has two tokens; the three chunks first in rank
\* share one of them, and the chunk last in rank and in the input, the only
\* one with the other token, is selected as the fourth.
C16_Witness ==
    /\ citer.pc = "done"
    /\ citer.answer = <<"b", " ", "c">>
    /\ citer.selected_indices = <<1, 2, 3, 4>>
    /\ \A k \in 1..3 : CiterMatch(k).tokens = {<<"b">>}
    /\ CiterMatch(4).tokens = {<<"c">>}

\* ---- list numerals at the head of an aligned text ----------------------
\* the result starts with a list numeral: digits, a dot and a space, or
\* digits in parentheses and a space
ResultStartsWithListNumeral ==
    LET s      == aligner.result
        plain  == SkipSet(s, 1, DigitSet)
        inside == SkipSet(s, 2, DigitSet)
    IN  \/ /\ plain > 1 /\ plain + 1 <= Len(s)
           /\ s[plain] = "." /\ s[plain + 1] = " "
        \/ /\ s # <<>> /\ s[1] = "("
           /\ inside > 2 /\ inside + 1 <= Len(s)
           /\ s[inside] = ")" /\ s[inside + 1] = " "

\* C17: a text the aligner returns from a candidate (any return but the
\* early returns and the final return of the answer itself) does not start
\* with a list numeral of the form "1. " or "(2) ".
C17_NoLeadingListNumeral ==
    (/\ aligner.pc = "done"
     /\ aligner.path \in {"candidate", "label", "query_only", "expanded_fragment",
                          "expanded_chunk", "clause"})
        => ~ResultStartsWithListNumeral

\* ---- when the candidate scorer returns no score -----------------------
\* the locals of the enclosing call and the tokens of the stripped candidate
ScorerLocals == Apply("AlignLocals", <<Strip(matcher.answer), matcher.query>>)
CandidateTokens == Apply("_chunk_keyword_tokens", <<Strip(matcher.candidate_text)>>)

\* the candidate is blank, normalises to nothing or has no keyword token
CandidateWithoutTokens ==
    \/ Strip(matcher.candidate_text) = <<>>
    \/ Apply("_normalize_for_match", <<Strip(matcher.candidate_text)>>) = <<>>
    \/ CandidateTokens = <<>>

\* the normalised candidate contains the normalised answer or one of its
\* fragments
CandidateSpanOrFragment ==
    LET normalized_candidate ==
            Apply("_normalize_for_match", <<Strip(matcher.candidate_text)>>)
        loc == ScorerLocals
    IN  \/ loc.normalized_answer # <<>>
               /\ Contains(normalized_candidate, loc.normalized_answer)
        \/ \E k \in 1..Len(loc.fragments) :
               Contains(normalized_candidate, loc.fragments[k])

\* fewer than two distinct tokens shared with the answer, none with the query
CandidateWeakOverlap ==
    /\ Cardinality(ScorerLocals.answer_token_set \cap TokenSet(CandidateTokens)) < 2
    /\ TokenSet(ScorerLocals.query_tokens) \cap TokenSet(CandidateTokens) = {}

\* less than 0.4 of the answer's tokens and less than 0.4 of the query's
\* tokens are found in the candidate
CandidateLowCoverage ==
    LET loc == ScorerLocals
        shared(tokens) ==
            LET found == {t \in TokenSet(tokens) : Count(CandidateTokens, t) > 0}
                least(t) == IF Count(tokens, t) < Count(CandidateTokens, t)
                            THEN Count(tokens, t) ELSE Count(CandidateTokens, t)
                sum[S \in SUBSET found] ==
                    IF S = {} THEN 0
                    ELSE LET t == CHOOSE e \in S : TRUE IN least(t) + sum[S \ {t}]
            IN  sum[found]
    IN  /\ shared(loc.answer_tokens) * 10 < 4 * Len(loc.answer_tokens)
            \/ Len(loc.answer_tokens) = 0
        /\ shared(loc.query_tokens) * 10 < 4 * Len(loc.query_tokens)
            \/ Len(loc.query_tokens) = 0

\* query-only matching is not allowed, or there is no query token to match
QueryOnlyBarred ==
    ~ScorerLocals.allow_query_only_matches \/ ScorerLocals.query_tokens = <<>>

\* C18 (as claimed): _evaluate_candidate returns None exactly when the
\* candidate has no tokens, or has no span match, no fragment match, fewer
\* than 2 distinct tokens in common with the answer and no query-token
\* overlap while query-only matching is barred; every other candidate gets a
\* score record.
C18_NullOnlyForWeakOverlap ==
    matcher.pc = "done" =>
        (matcher.eval = None <=>
            \/ CandidateWithoutTokens
            \/ /\ ~CandidateSpanOrFragment
               /\ CandidateWeakOverlap
               /\ QueryOnlyBarred)

\* C18 (amended): None is returned exactly when the candidate has no tokens,
\* or has no span match and no fragment match while query-only matching is
\* barred and either the overlap is weak as above or the candidate covers
\* less than 0.4 of the answer's tokens and less than 0.4 of the query's;
\* every other candidate gets a score record for its stripped text.
C18_NullForWeakOverlapOrLowCoverage ==
    matcher.pc = "done" =>
        /\ matcher.eval = None <=>
               \/ CandidateWithoutTokens
               \/ /\ ~CandidateSpanOrFragment
                  /\ QueryOnlyBarred
                  /\ CandidateWeakOverlap \/ CandidateLowCoverage
        /\ matcher.eval # None =>
               /\ matcher.eval[1].text = Strip(matcher.candidate_text)
               /\ Len(matcher.eval[1].score) = 11

\* C18 witness: a candidate that has tokens and more than a weak overlap,
\* but covers less than 0.4 of the answer and of the query, is given no score.
C18_Witness ==
    /\ matcher.pc = "done"
    /\ matcher.eval = None
    /\ ~CandidateWithoutTokens
    /\ ~CandidateWeakOverlap
    /\ CandidateLowCoverage

\* ---- where a text is split into fragments ------------------------------
\* the positions of matcher.text that the claim names as split points: a
\* newline, a semicolon, a period not immediately followed by a digit
ClaimedSplitPoints ==
    LET s == matcher.text
    IN  {i \in 1..Len(s) :
            \/ s[i] \in {"\n", ";"}
            \/ s[i] = "." /\ (i = Len(s) \/ s[i + 1] \notin DigitSet)}

\* the pieces of matcher.text between those positions, normalised, the empty
\* ones left out
ClaimedFragments ==
    LET s == matcher.text
        starts == {i \in 1..Len(s) :
                      i \notin ClaimedSplitPoints
                          /\ (i = 1 \/ i - 1 \in ClaimedSplitPoints)}
        nth(k) == CHOOSE i \in starts : Cardinality({j \in starts : j < i}) = k - 1
        last(i) == CHOOSE e \in i..Len(s) :
                       /\ \A j \in i..e : j \notin ClaimedSplitPoints
                       /\ e = Len(s) \/ e + 1 \in ClaimedSplitPoints
    IN  NonEmpty([k \in 1..Cardinality(starts) |->
                     Apply("_normalize_for_match", <<SubSeq(s, nth(k), last(nth(k)))>>)])

\* C19 (as claimed): _extract_answer_fragments breaks the text at every
\* newline, every semicolon and every period that is not immediately followed
\* by a digit, never at a period followed by a digit, and drops the pieces
\* that are empty after normalisation.
C19_SplitAtEveryUnfollowedPeriod ==
    matcher.pc = "done" => matcher.fragments = ClaimedFragments

\* ---- alignment without an error outcome --------------------------------
\* the return statements of align_answer_to_context
AlignPaths ==
    {"no_answer", "no_chunks", "blank_answer", "sentinel", "no_signal", "unchanged"}
        \cup RealignedPaths

\* no chunk has any text besides whitespace
AllChunksBlank ==
    \A k \in 1..Len(aligner.context_chunks) :
        Strip(aligner.context_chunks[k].text) = <<>>

\* C20 (as claimed): every call ends with a string, and a call in which no
\* path yields a qualifying candidate returns the original answer unchanged.
C20_UnqualifiedReturnsOriginal ==
    aligner.pc = "done" =>
        /\ aligner.path \in AlignPaths
        /\ \A i \in 1..Len(aligner.result) : aligner.result[i] \in STRING
        /\ aligner.path \in {"no_signal", "unchanged"} =>
               aligner.result = aligner.answer

\* C20 (amended): every call ends with a string, and a call in which no path
\* yields a qualifying candidate returns the answer stripped of its
\* surrounding whitespace; no candidate qualifies when every chunk is blank.
C20_UnqualifiedReturnsStripped ==
    aligner.pc = "done" =>
        /\ aligner.path \in AlignPaths
        /\ \A i \in 1..Len(aligner.result) : aligner.result[i] \in STRING
        /\ aligner.path \in {"no_signal", "unchanged"} =>
               aligner.result = Strip(aligner.answer)
        /\ aligner.context_chunks # <<>> /\ AllChunksBlank =>
               /\ aligner.path \notin RealignedPaths
               /\ aligner.result = Strip(aligner.answer)

\* C20 witness: an answer with a trailing space, chunks with text, a query;
\* nothing qualifies and the stripped answer is returned.
C20_Witness ==
    /\ aligner.pc = "done"
    /\ aligner.path = "unchanged"
    /\ ~AllChunksBlank
    /\ aligner.query # <<>>
    /\ aligner.answer # Strip(aligner.answer)
    /\ aligner.result = Strip(aligner.answer)

\* ---- passages without text ---------------------------------------------
\* a chunk with no "text" key or with an empty text
Textless(chunk) == ~chunk.has_text \/ chunk.text = <<>>

\* the answer of ask for a given alignment context
AskAnswerAgainst(context_chunks) ==
    LET aligned == Apply("AlignOutcome",
                         <<asker.cleaned_answer, context_chunks, asker.query>>).text
    IN  IF aligned # <<>> THEN aligned ELSE asker.cleaned_answer

\* C21 (as claimed): a request whose passages include a text-less one never
\* raises, and its answer is the one that the same passages without the
\* text-less ones give.
C21_TextlessPassagesSkipped ==
    (/\ asker.pc \in {"responded", "raised"}
     /\ gateway.pc = "returned"
     /\ \E k \in 1..Len(asker.chunks) : Textless(asker.chunks[k])) =>
        /\ asker.outcome = "AskResponse"
        /\ asker.final_answer =
               AskAnswerAgainst(SelectSeq(asker.alignment_context,
                                          LAMBDA chunk : ~Textless(chunk)))

\* ---- citations and the context budget ----------------------------------
\* the chunks of a list, as a set
ChunkSet(chunks) == {chunks[k] : k \in 1..Len(chunks)}

\* C28: whatever call_llm_with_citations returns (model answer, fallback,
\* demo answer), every citation is one of the chunks that were selected into
\* the context, themselves retrieved chunks; and ask aligns the answer
\* against the citations when there are any, against the retrieved chunks
\* otherwise.
C28_CitationsFromBoundedContext ==
    /\ gateway.pc = "returned" =>
           /\ gateway.outcome \in {"answer", "fallback", "demo"}
           /\ ChunkSet(gateway.citations) \subseteq ChunkSet(gateway.bounded_chunks)
           /\ ChunkSet(gateway.bounded_chunks) \subseteq ChunkSet(gateway.chunks)
           /\ Len(gateway.citations) <= Len(gateway.bounded_chunks)
    /\ asker.pc = "responded" \/ (asker.pc = "raised" /\ asker.outcome = "KeyError") =>
           /\ gateway.pc = "returned"
           /\ asker.alignment_context =
                  IF gateway.citations # <<>> THEN gateway.citations
                  ELSE asker.chunks

\* C28 witness: the budget left the second retrieved chunk out of the
\* context, the provider failed three times, the fallback answer cites the
\* first chunk only and ask aligned against it.
C28_Witness ==
    /\ asker.pc = "responded"
    /\ gateway.pc = "returned" /\ gateway.outcome = "fallback"
    /\ Len(asker.chunks) = 2
    /\ asker.chunks[2] \notin ChunkSet(gateway.bounded_chunks)
    /\ gateway.citations = <<asker.chunks[1]>>
    /\ asker.alignment_context = gateway.citations

\* ---- the candidate kept by the exact/near scan -------------------------
\* the texts the scan evaluates, in its order, with their score records
ScannedTexts ==
    LET texts == ChunkTexts(aligner.context_chunks)
        visits == Flatten([k \in 1..Len(texts) |-> Apply("ChunkVisits", <<texts[k]>>)])
    IN  [k \in 1..Len(visits) |-> visits[k].text]

ScannedEval(k) ==
    Apply("_evaluate_candidate",
          <<Apply("AlignLocals", <<Strip(aligner.answer), aligner.query>>),
            ScannedTexts[k]>>)

\* a is greater than b in the lexicographic order of tuples
ScoreAbove(a, b) ==
    \E k \in 1..Len(a) :
        /\ k > Len(b) \/ a[k] > b[k]
        /\ \A j \in 1..(k - 1) : j <= Len(b) /\ a[j] = b[j]

\* the scanned texts that may replace the answer: scored, other than the
\* answer, no longer than the reference, above the baseline
Replacements ==
    {k \in 1..Len(ScannedTexts) :
        /\ ScannedTexts[k] # Strip(aligner.answer)
        /\ ScannedEval(k) # None
        /\ Len(ScannedTexts[k]) <= aligner.trace.reference_length
        /\ ScoreAbove(ScannedEval(k)[1].score, aligner.trace.baseline_score)}

\* the answer's own score with the span-match component set to 0
OwnBaseline ==
    LET own == Apply("_evaluate_candidate",
                     <<Apply("AlignLocals", <<Strip(aligner.answer), aligner.query>>),
                       Strip(aligner.answer)>>)
    IN  IF own = None THEN None ELSE Some(<<0>> \o Tail(own[1].score))

\* C27: after the scan the kept candidate is the answer itself when no
\* scanned text no longer than the reference scores above the baseline;
\* otherwise it is the first of those with the greatest score. Longer texts
\* are kept only as the expansion fallbacks.
C27_BestShortCandidateKept ==
    (aligner.pc = "done" /\ aligner.trace.reference_length > 0) =>
        LET kept == aligner.trace.best_after_loop
            replacements == Replacements
            fallbacks == {aligner.trace.fallback_eval_after_loop,
                          aligner.trace.fallback_fragment_eval_after_loop} \ {None}
        IN  /\ OwnBaseline # None => aligner.trace.baseline_score = OwnBaseline[1]
            /\ IF replacements = {} THEN kept = Strip(aligner.answer)
               ELSE \E k \in replacements :
                       /\ kept = ScannedTexts[k]
                       /\ aligner.trace.best_eval_after_loop[1].score = ScannedEval(k)[1].score
                       /\ \A j \in replacements :
                              /\ ~ScoreAbove(ScannedEval(j)[1].score, ScannedEval(k)[1].score)
                              /\ ScannedEval(j)[1].score = ScannedEval(k)[1].score
                                     => ScannedTexts[j] = kept \/ j > k
            /\ \A f \in fallbacks : f[1].length > aligner.trace.reference_length

\* C27 witness: two different scanned texts may replace the answer and the
\* second has the greater score; a longer scored text is kept as a fallback.
C27_Witness ==
    /\ aligner.pc = "done" /\ aligner.trace.reference_length > 0
    /\ \E j, k \in Replacements :
           /\ j < k
           /\ ScoreAbove(ScannedEval(k)[1].score, ScannedEval(j)[1].score)
           /\ aligner.trace.best_after_loop = ScannedTexts[k]
    /\ aligner.trace.fallback_eval_after_loop # None
           \/ aligner.trace.fallback_fragment_eval_after_loop # None

\* the age the rules are applied to, None when the patient has none
PatientAge == _parse_age_value(screener.patient.age)

\* the sex the rules are applied to, None when it is missing or unsupported
PatientSex == _normalize_sex(screener.patient.sex)

\* the age lies between the two bounds of the rule exactly as the rule gives
\* them, an absent bound leaving its side open
InsideAsGiven(rule, a) ==
    /\ rule.min # None => rule.min[1] <= a
    /\ rule.max # None => a <= rule.max[1]

\* the age lies between the two bounds of the rule, the smaller one taken as
\* the lower bound
InsideAscending(rule, a) ==
    IF rule.min # None /\ rule.max # None /\ rule.min[1] > rule.max[1]
    THEN rule.max[1] <= a /\ a <= rule.min[1]
    ELSE InsideAsGiven(rule, a)

\* the age rules the patient violates, with the bounds read by Inside
ViolatedAgeRules(Inside(_, _)) ==
    { k \in 1..Len(screener.rules.age) :
          LET rule == screener.rules.age[k]
          IN  /\ PatientAge # None
              /\ IF rule.source = "inclusion" THEN ~Inside(rule, PatientAge[1])
                 ELSE Inside(rule, PatientAge[1]) }

\* the sex rules the patient violates
ViolatedSexRules ==
    { k \in 1..Len(screener.rules.sex) :
          LET rule == screener.rules.sex[k]
          IN  /\ PatientSex # None
              /\ IF rule.source = "inclusion" THEN PatientSex[1] \notin rule.allowed
                 ELSE PatientSex[1] \in rule.allowed }

\* the rules that need a field the patient does not have
AgeRulesWithoutAge ==
    IF PatientAge = None THEN 1..Len(screener.rules.age) ELSE {}
SexRulesWithoutSex ==
    IF PatientSex = None THEN 1..Len(screener.rules.sex) ELSE {}

\* the reasons that name a missing field
ReasonsNaming(phrase) ==
    { k \in 1..Len(screener.reasons) : screener.reasons[k][1] = phrase }

\* the verdict of check_eligibility with the bounds read by Inside
VerdictBy(Inside(_, _)) ==
    screener.pc = "done" =>
        /\ screener.eligible =
               /\ ViolatedAgeRules(Inside) = {}
               /\ ViolatedSexRules = {}
               /\ AgeRulesWithoutAge = {}
               /\ SexRulesWithoutSex = {}
        /\ Cardinality(ReasonsNaming("Missing age information for "))
               = Cardinality(AgeRulesWithoutAge)
        /\ Cardinality(ReasonsNaming("Missing or unsupported sex value for "))
               = Cardinality(SexRulesWithoutSex)

C22_WitnessMissing ==
    /\ screener.pc = "done" /\ ~screener.eligible
    /\ screener.patient.age = None /\ Len(screener.rules.age) = 1
    /\ screener.rules.sex = <<>>
    /\ Len(screener.reasons) = 1

\* C29: in every result of check_eligibility eligible is false if and only if
\* reasons is non-empty, and reasons holds exactly one reason for each rule
\* that is violated or whose field is missing.
C29_IneligibleIffReasons ==
    screener.pc = "done" =>
        /\ ~screener.eligible <=> screener.reasons # <<>>
        /\ Len(screener.reasons) =
               Cardinality(ViolatedAgeRules(InsideAscending))
                   + Cardinality(ViolatedSexRules)
                   + Cardinality(AgeRulesWithoutAge)
                   + Cardinality(SexRulesWithoutSex)

\* C29 witness: three rules, two of them violated: two reasons and an
\* ineligible patient; and a result without reasons is reachable too.
C29_Witness ==
    /\ screener.pc = "done" /\ ~screener.eligible
    /\ Len(screener.rules.age) + Len(screener.rules.sex) = 3
    /\ Len(screener.reasons) = 2

\* the examples whose record has been appended
RecordedExamples == 1..Len(evaluator.records)

\* an answer that starts with one of the two fallback markers
MarkedFallback(answer) ==
    \/ SubSeq(answer, 1, Min(10, Len(answer)))
           = <<"[", "F", "A", "L", "L", "B", "A", "C", "K", "]">>
    \/ SubSeq(answer, 1, Min(6, Len(answer))) = <<"[", "D", "E", "M", "O", "]">>

\* the outcome of a request is a 200 response with a fallback answer, or with
\* a normal answer
FallbackResponse(r) ==
    ~r.raises /\ r.status_code = 200 /\ r.json # None /\ MarkedFallback(r.json[1].answer)
NormalResponse(r) ==
    ~r.raises /\ r.status_code = 200 /\ r.json # None /\ ~MarkedFallback(r.json[1].answer)

\* C23: evaluate_examples issues at most MAX_REQUEST_ATTEMPTS requests for an
\* example and appends exactly one record for it; a 200 response with a
\* fallback answer is followed by another request while attempts remain; a
\* normal answer on a later attempt is the answer of the record, which has no
\* error; when every attempt returned a fallback answer the record has status
\* 200, no answer, no citations, no exact match and an error that contains
\* "Fallback answer".
C23_BoundedRetriesOneRecord ==
    /\ evaluator.pc # "idle" =>
           /\ Len(evaluator.records) = evaluator.index - 1
           /\ evaluator.pc = "returned" => Len(evaluator.records) = Len(evaluator.examples)
           /\ \A i \in 1..Len(evaluator.examples) :
                  /\ Len(evaluator.requests[i]) <= MAX_REQUEST_ATTEMPTS
                  /\ i > evaluator.index => evaluator.requests[i] = <<>>
    /\ \A i \in RecordedExamples :
           LET asked  == evaluator.requests[i]
               record == evaluator.records[i]
               last   == asked[Len(asked)]
           IN  /\ asked # <<>>
               /\ \A j \in 1..Len(asked) :
                      (FallbackResponse(asked[j]) /\ j < MAX_REQUEST_ATTEMPTS)
                          => j < Len(asked)
               /\ NormalResponse(last) =>
                      /\ record.answer = Some(last.json[1].answer)
                      /\ record.error = None
                      /\ record.status_code = Some(200)
               /\ (\A j \in 1..Len(asked) : FallbackResponse(asked[j])) =>
                      /\ Len(asked) = MAX_REQUEST_ATTEMPTS
                      /\ record.status_code = Some(200)
                      /\ record.answer = None
                      /\ record.citations = <<>>
                      /\ ~record.answer_exact_match
                      /\ record.error # None
                      /\ record.error[1][1] = "Fallback answer received: "

\* C23 witness: the first example got a fallback answer and then a normal
\* answer, the second three fallback answers; both have their record.
C23_Witness ==
    /\ evaluator.pc = "returned" /\ Len(evaluator.records) = 2
    /\ Len(evaluator.requests[1]) = 2
    /\ FallbackResponse(evaluator.requests[1][1])
    /\ NormalResponse(evaluator.requests[1][2])
    /\ evaluator.records[1].answer_exact_match
    /\ Len(evaluator.requests[2]) = MAX_REQUEST_ATTEMPTS
    /\ \A j \in 1..MAX_REQUEST_ATTEMPTS : FallbackResponse(evaluator.requests[2][j])

\* what the Qdrant client was asked and what it answered during the last
\* retrieve_chunks
Requests == searcher.call.requests
Responses == searcher.call.responses

\* the j-th search was filtered and failed with a payload-index error: an
\* error response of Qdrant whose content or message mentions "payload index"
PayloadIndexFailure(j) ==
    /\ Responses[j].raises
    /\ Requests[j].query_filter # None
    /\ Responses[j].exc[1].type \in {"UnexpectedResponse", "ResponseHandlingException"}
    /\ \/ Contains(Lower(Responses[j].exc[1].content),
                   <<"p", "a", "y", "l", "o", "a", "d", " ", "i", "n", "d", "e", "x">>)
       \/ Contains(Lower(Responses[j].exc[1].str),
                   <<"p", "a", "y", "l", "o", "a", "d", " ", "i", "n", "d", "e", "x">>)

\* the request after the j-th repeats it
Repeated(j) ==
    /\ j < Len(Requests)
    /\ Requests[j + 1].callable = Requests[j].callable
    /\ Requests[j + 1].key = Requests[j].key

\* the payloads of the points whose payload has the requested nct_id
MatchingPayloads(points) ==
    LET kept == SelectSeq(points,
                    LAMBDA point : /\ point.payload # None
                                   /\ point.payload[1].nct_id = searcher.call.nct_id)
    IN  [i \in 1..Len(kept) |-> kept[i].payload[1]]

\* C24: a filtered search that fails with a payload-index error is repeated
\* once without the filter, and the points the repeated search returns are
\* filtered so that retrieve_chunks returns only those whose payload has the
\* requested nct_id; no other failed search is repeated: not one that failed
\* with another error and not an unfiltered one.
C24_RetryOnceUnfilteredThenFilter ==
    \A j \in 1..Len(Responses) :
        /\ PayloadIndexFailure(j) =>
               /\ Repeated(j)
               /\ Requests[j + 1].query_filter = None
        /\ Repeated(j) => PayloadIndexFailure(j)
        /\ (j > 1 /\ Repeated(j - 1) /\ ~Responses[j].raises) =>
               /\ searcher.pc = "ready"
               /\ searcher.call.raised = None
               /\ searcher.call.result = Some(MatchingPayloads(Responses[j].points))

\* C24 witness: the filtered search failed with a payload-index error, the
\* unfiltered search returned a point of another trial and one of the
\* requested trial, and only the latter is returned.
C24_Witness ==
    /\ searcher.pc = "ready" /\ Len(Responses) = 2
    /\ PayloadIndexFailure(1)
    /\ ~Responses[2].raises /\ Len(Responses[2].points) = 2
    /\ searcher.call.result # None /\ Len(searcher.call.result[1]) = 1

\* C25 (as claimed): retrieve_chunks asks Qdrant only when the local index has
\* no chunk for the requested trial; the first request then is a vector
\* search, and a text search is requested only after a vector search that
\* returned no point.
C25_VectorSearchBeforeTextSearch ==
    (searcher.call.op = "retrieve_chunks" /\ Requests # <<>>) =>
        /\ searcher.call.local = <<>>
        /\ Requests[1].key = "query_vector"
        /\ \A j \in 1..Len(Requests) :
               Requests[j].key \in {"query_text", "query"} =>
                   \E i \in 1..(j - 1) :
                       /\ Requests[i].key = "query_vector"
                       /\ i <= Len(Responses)
                       /\ ~Responses[i].raises /\ Responses[i].points = <<>>

\* the chunks of the first n lines of the dataset file, for some n
LoadedPrefixes ==
    IF searcher.file = None THEN {<<>>}
    ELSE { ChunksOfLines(SubSeq(searcher.file[1], 1, n)) :
               n \in 0..Len(searcher.file[1]) }

\* C30: every read of the dataset file found _FAKE_INDEX empty, so that the
\* index holds each line of the file at most once; between two calls of
\* clear_fallback_index at most one read was not forced, and with a Qdrant
\* client every read was forced.
C30_NoDoubleLoad ==
    searcher.pc # "idle" =>
        /\ \A i \in 1..Len(searcher.reads) : searcher.reads[i].before = 0
        /\ searcher.index \in LoadedPrefixes
        /\ Cardinality({ i \in 1..Len(searcher.reads) : ~searcher.reads[i].force }) <= 1
        /\ \A i \in 1..Len(searcher.reads) :
               searcher.reads[i].client => searcher.reads[i].force

\* C30 witness: the file was read without force and then with force, the
\* second read filled the index, and a later call left it as it was.
C30_Witness ==
    /\ searcher.pc = "ready" /\ searcher.calls = MaxSearchCalls
    /\ Len(searcher.reads) = 2
    /\ ~searcher.reads[1].force /\ searcher.reads[2].force
    /\ Len(searcher.index) = 2
    /\ searcher.call.op = "retrieve_chunks"

\* the pageToken of a request, None when it has none
PageTokenOf(query) ==
    LET at == { k \in 1..Len(query) : query[k][1] = "pageToken" }
    IN  IF at = {} THEN None ELSE Some(query[CHOOSE k \in at : TRUE][2])

\* the studies of the first j pages in page order
RECURSIVE StudiesUpTo(_)
StudiesUpTo(j) ==
    IF j = 0 THEN <<>> ELSE StudiesUpTo(j - 1) \o fetcher.answers[j].studies

\* the pages were requested in sequence, each request after the first with
\* the nextPageToken of the answer before it, and the first page without a
\* token was the last
PagesInSequence ==
    /\ Len(fetcher.requests) = Len(fetcher.answers)
    /\ \A j \in 1..Len(fetcher.requests) :
           /\ j = 1 => PageTokenOf(fetcher.requests[j]) = None
           /\ j > 1 =>
                  /\ fetcher.answers[j - 1].kind = "page"
                  /\ fetcher.answers[j - 1].nextPageToken \notin { None, Some("") }
                  /\ PageTokenOf(fetcher.requests[j]) = fetcher.answers[j - 1].nextPageToken
    /\ (fetcher.pc = "returned" /\ fetcher.max_studies = None) =>
           /\ fetcher.answers[Len(fetcher.answers)].nextPageToken \in { None, Some("") }
           /\ fetcher.result = Some(StudiesUpTo(Len(fetcher.answers)))

\* with max_studies = m the result is the first m studies in page order, or
\* all of them when the pages end before, and no request was made once the
\* studies collected were m or more; Before says which requests are meant
LimitKept(m, Before(_)) ==
    /\ \A j \in 1..Len(fetcher.requests) :
           Before(j) => Len(StudiesUpTo(j - 1)) < m
    /\ fetcher.pc = "returned" =>
           LET all == StudiesUpTo(Len(fetcher.answers))
           IN  /\ Len(fetcher.result[1]) <= m
               /\ fetcher.result[1] = SubSeq(all, 1, Len(fetcher.result[1]))
               /\ Len(fetcher.result[1]) < m => fetcher.result[1] = all

AnyRequest(j) == TRUE
LaterRequest(j) == j > 1

\* C26 (as claimed): the pages are requested in sequence with the tokens
\* handed on and the studies are returned in page order; with max_studies
\* given, at most max_studies records are returned and no request is made once
\* the number collected has reached max_studies.
C26_PaginationAndLimit ==
    /\ fetcher.pc # "idle" => PagesInSequence
    /\ (fetcher.pc # "idle" /\ fetcher.max_studies # None) =>
           LimitKept(fetcher.max_studies[1], AnyRequest)

\* C26 (amended): the same for a max_studies of at least 1; with max_studies
\* = 0 the first request is still made and nothing is returned, no request
\* following it.
C26_PaginationAndPositiveLimit ==
    /\ fetcher.pc # "idle" => PagesInSequence
    /\ (fetcher.pc # "idle" /\ fetcher.max_studies # None) =>
           /\ fetcher.max_studies[1] >= 1 => LimitKept(fetcher.max_studies[1], AnyRequest)
           /\ fetcher.max_studies[1] = 0 => LimitKept(0, LaterRequest)
           /\ fetcher.max_studies[1] < 0 => Len(fetcher.requests) <= 1

\* C26 witness: with max_studies = 3 two pages of two studies were requested,
\* the second with the token of the first, and three studies were returned.
C26_Witness ==
    /\ fetcher.pc = "returned" /\ fetcher.max_studies = Some(3)
    /\ Len(fetcher.requests) = 2
    /\ PageTokenOf(fetcher.requests[2]) = Some("t1")
    /\ Len(fetcher.result[1]) = 3

====
